---- MODULE Spec2Model ----
(***************************************************************************)
(* TinyPedal telemetry estimators: module_sectors.Realtime and             *)
(* module_fuel.Realtime.  Each estimator is a worker thread polling the    *)
(* telemetry API; one loop iteration of the worker is one action.          *)
(*                                                                         *)
(* Python lists are 0-based, TLA+ sequences 1-based: best_s_tb[0] of the   *)
(* source is best_s_tb[1] here.  Times are integers (one unit is a tenth   *)
(* of a second where the source compares against 0.2, 0.3, 1, 3 and 5).    *)
(***************************************************************************)
EXTENDS Integers, Sequences, FiniteSets, TLC

\* ------------------------------------------------------------- bounds
\* largest sector / lap time a telemetry reading takes
MaxTime == 2
\* sessions (Idle -> Active transitions) the sectors workers go through
MaxSessions == 2
\* the same, when the laps of the splits are tracked
MaxLapSessions == 1

\* worker threads of one estimator that can exist at a time
MaxThreads == 2
\* largest value of a session-identity field (type, elapsed time, total laps)
MaxId == 1

\* largest fuel level read, and largest fuel use accumulated in one lap
MaxFuel == 1
\* largest lap distance read on track
MaxPos == 0
\* largest lap start time read
MaxStime == 1
\* samples recorded in the curve of one lap
MaxSamples == 1
\* laps finished in one session of the fuel worker
MaxLaps == 2
\* the same, with a steady fuel level
MaxSteadyLaps == 3
\* sessions the fuel worker goes through
MaxFuelSessions == 1

\* ------------------------------------------------- program constants
MAGIC_NUM == 99999
\* module_fuel, in tenths of a second: 0.2, 1, 3 and 5 seconds
Sec02 == 2
Sec1 == 10
Sec3 == 30
Sec5 == 50
\* "Reset to 0 if higher than normal distance"
FarDistance == 300
\* the end point of a lap is put 10 after the last position
EndGap == 10

VARIABLES
    stopped,             \* self.stopped, per estimator
    event,               \* self.event (threading.Event), per estimator
    active_module_list,  \* cfg.active_module_list
    pc,                  \* position of each worker thread, per estimator
    ctl,                 \* the thread that calls start() and stop()
    sec,                 \* locals of module_sectors.Realtime.__update_data
    sector_info,         \* mcfg["sector_info"], the stored sector record
    lapinfo,             \* telemetry side: which lap each split was driven in
    minfo_sectors,       \* minfo.sectors, the published sector fields
    fuel,                \* locals of module_fuel.Realtime.__update_data
    fuel_file,           \* the file <combo>.fuel
    fuel_io,             \* what the fuel worker did last, and saw this session
    sessions,            \* number of sessions started so far, per estimator
    ld                   \* a function called alone: its inputs and result

vars == <<stopped, event, active_module_list, pc, ctl, sec, sector_info, lapinfo,
          minfo_sectors, fuel, fuel_file, fuel_io, sessions, ld>>

secVars == <<sec, sector_info, lapinfo, minfo_sectors>>
fuelVars == <<fuel, fuel_file, fuel_io>>

Estimators == {"fuel", "sectors"}
Threads == 1..MaxThreads
NoThreads == [e \in Estimators |-> [w \in Threads |-> "none"]]
CtlIdle == [at |-> "idle", e |-> "fuel", last |-> "none"]

\* ------------------------------------------------------------ strings
\* A stored string is a sequence of tokens: the separator, a piece of text,
\* or the decimal text of a number.
Sep == [k |-> "sep", s |-> "|", n |-> 0]
Txt(t) == [k |-> "txt", s |-> t, n |-> 0]
Num(v) == [k |-> "num", s |-> "", n |-> v]

\* str(x) of a number
StrOf(v) == <<Num(v)>>

\* fmt.pipe_join(*args): "|".join(str(x))
RECURSIVE pipe_join(_)
pipe_join(fields) ==
    IF Len(fields) = 0 THEN <<>>
    ELSE IF Len(fields) = 1 THEN fields[1]
    ELSE fields[1] \o <<Sep>> \o pipe_join(Tail(fields))

\* fmt.pipe_split(string): string.split("|"); always at least one field
RECURSIVE pipe_split(_)
pipe_split(str) ==
    IF \A i \in 1..Len(str) : str[i] # Sep THEN <<str>>
    ELSE LET i == CHOOSE j \in 1..Len(str) :
                      str[j] = Sep /\ \A m \in 1..(j-1) : str[m] # Sep
         IN <<SubSeq(str, 1, i-1)>> \o pipe_split(SubSeq(str, i+1, Len(str)))

\* float(s) succeeds exactly on the text of a number
IsFloat(field) == Len(field) = 1 /\ field[1].k = "num"
FloatOf(field) == field[1].n

\* val.sector_time(x): a valid sector time
sector_time(x) == x > 0 /\ x < MAGIC_NUM
\* val.sector_time(list): every slot valid
sector_time_list(l) == \A i \in 1..Len(l) : sector_time(l[i])

Unset3 == <<MAGIC_NUM, MAGIC_NUM, MAGIC_NUM>>

\* ------------------------------------------------- sectors: load/save
\* convert_value: string_list[0] kept as str, the rest through float();
\* a field that is not a number raises ValueError
convert_value(string_list) ==
    LET rest == Tail(string_list)
    IN IF \E i \in 1..Len(rest) : ~IsFloat(rest[i])
       THEN [raised |-> "ValueError", head |-> <<>>, nums |-> <<>>]
       ELSE [raised |-> "none", head |-> string_list[1],
             nums |-> [i \in 1..Len(rest) |-> FloatOf(rest[i])]]

\* parse_save_string: data[0..10] into final_list; IndexError -> ["None"]
parse_save_string(save_data) ==
    LET data == convert_value(pipe_split(save_data))
    IN IF data.raised # "none"
       THEN [raised |-> data.raised, full |-> FALSE, combo |-> <<>>,
             sess |-> <<0, 0, 0>>, laptime_best |-> 0,
             best_s_tb |-> Unset3, best_s_pb |-> Unset3]
       ELSE IF Len(data.nums) < 10
       THEN [raised |-> "none", full |-> FALSE, combo |-> <<Txt("None")>>,
             sess |-> <<0, 0, 0>>, laptime_best |-> 0,
             best_s_tb |-> Unset3, best_s_pb |-> Unset3]
       ELSE [raised |-> "none", full |-> TRUE, combo |-> data.head,
             sess |-> <<data.nums[1], data.nums[2], data.nums[3]>>,
             laptime_best |-> data.nums[4],
             best_s_tb |-> <<data.nums[5], data.nums[6], data.nums[7]>>,
             best_s_pb |-> <<data.nums[8], data.nums[9], data.nums[10]>>]

\* every field compared with <=, the session type included
SessionMatchAllLe(saved, session_id) ==
    /\ saved[1] <= session_id[1]
    /\ saved[2] <= session_id[2]
    /\ saved[3] <= session_id[3]

\* the session part of the acceptance test of load_sector_data
SessionMatch(saved, session_id) ==
    /\ saved[1] = session_id[1]
    /\ saved[2] <= session_id[2]
    /\ saved[3] <= session_id[3]

LoadDefault(r) ==
    [raised |-> r, accepted |-> FALSE, laptime_best |-> MAGIC_NUM,
     best_s_tb |-> Unset3, best_s_pb |-> Unset3]

\* load_sector_data: `and` short-circuits, so saved_data[1] is read only
\* when the combination ids are equal; on ["None"] that read is an IndexError
load_sector_data(info, combo_id, session_id) ==
    LET saved == parse_save_string(info)
    IN IF saved.raised # "none" THEN LoadDefault(saved.raised)
       ELSE IF combo_id # saved.combo THEN LoadDefault("none")
       ELSE IF ~saved.full THEN LoadDefault("IndexError")
       ELSE IF SessionMatch(saved.sess, session_id)
       THEN [raised |-> "none", accepted |-> TRUE,
             laptime_best |-> saved.laptime_best,
             best_s_tb |-> saved.best_s_tb, best_s_pb |-> saved.best_s_pb]
       ELSE LoadDefault("none")

\* the gate of save_sector_data: a tuple of three is truthy
SaveGate(session_id, best_s_pb) ==
    Len(session_id) > 0 /\ sector_time_list(best_s_pb)

\* the record written with the personal best ahead of the theoretical best
save_sector_data_pb_first(info, combo_id, session_id, best_s_pb, laptime_best, best_s_tb) ==
    IF SaveGate(session_id, best_s_pb)
    THEN pipe_join(<<combo_id>>
                   \o [i \in 1..3 |-> StrOf(session_id[i])]
                   \o <<StrOf(laptime_best)>>
                   \o [i \in 1..3 |-> StrOf(best_s_pb[i])]
                   \o [i \in 1..3 |-> StrOf(best_s_tb[i])])
    ELSE info

\* save_sector_data: the new value of mcfg["sector_info"]
save_sector_data(info, combo_id, session_id, best_s_pb, laptime_best, best_s_tb) ==
    IF SaveGate(session_id, best_s_pb)
    THEN pipe_join(<<combo_id>>
                   \o [i \in 1..3 |-> StrOf(session_id[i])]
                   \o <<StrOf(laptime_best)>>
                   \o [i \in 1..3 |-> StrOf(best_s_tb[i])]
                   \o [i \in 1..3 |-> StrOf(best_s_pb[i])])
    ELSE info

\* the stored best never lowered
SaveBestNever(best, i, t) == best

\* ------------------------------------------------ sectors: one tick
\* the sector time stored without the comparison
SaveBestAlways(best, i, t) == [best EXCEPT ![i] = t]

\* "Save best sector time": if prev_s[i] < best_s_tb[i]: best_s_tb[i] = prev_s[i]
SaveBest(best, i, t) == IF t < best[i] THEN [best EXCEPT ![i] = t] ELSE best

\* the delta written whatever the stored best is
DeltaTBAlways(delta, best, i, t) == [delta EXCEPT ![i] = t - best[i]]

\* "Update deltabest sector text" against the theoretical best
DeltaTB(delta, best, i, t) ==
    IF sector_time(best[i]) THEN [delta EXCEPT ![i] = t - best[i]] ELSE delta

\* the personal best replaced by every lap with three valid splits
ReplacePBAnyLap(s, laptime_valid, prev) == sector_time_list(prev)

\* "Save sector time from personal best laptime"
ReplacePB(s, laptime_valid, prev) ==
    laptime_valid < s.laptime_best /\ sector_time_list(prev)

\* sector_idx == 0: sector 3 of the completed lap
UpdateS3(s, in) ==
    LET t == in.laptime_valid - in.last_sector2
        prev == [s.prev_s EXCEPT ![3] = t]
        rep == ReplacePB(s, in.laptime_valid, prev)
    IN [s EXCEPT
          !.last_sector_idx = in.sector_idx,
          !.prev_s = prev,
          !.delta_s_pb = IF sector_time(s.best_s_pb[3])
                         THEN [@ EXCEPT ![3] = t - s.best_s_pb[3] + s.delta_s_pb[2]]
                         ELSE @,
          !.delta_s_tb = DeltaTB(@, s.best_s_tb, 3, t),
          !.no_delta_s = ~sector_time(s.best_s_tb[3]),
          !.best_s_tb = SaveBest(@, 3, t),
          !.laptime_best = IF rep THEN in.laptime_valid ELSE @,
          !.best_s_pb = IF rep THEN prev ELSE @]

\* sector_idx == 1: sector 1 of the current lap
UpdateS1(s, in) ==
    LET t == in.curr_sector1
    IN [s EXCEPT
          !.last_sector_idx = in.sector_idx,
          !.prev_s = [@ EXCEPT ![1] = t],
          !.delta_s_pb = IF sector_time(s.best_s_pb[1])
                         THEN [@ EXCEPT ![1] = t - s.best_s_pb[1]]
                         ELSE @,
          !.delta_s_tb = DeltaTB(@, s.best_s_tb, 1, t),
          !.no_delta_s = ~sector_time(s.best_s_tb[1]),
          !.best_s_tb = SaveBest(@, 1, t)]

\* sector 2 taken as the split read, sector 1 not subtracted
UpdateS2RawSplit(s, in) ==
    LET t == in.curr_sector2
    IN [s EXCEPT
          !.last_sector_idx = in.sector_idx,
          !.prev_s = [@ EXCEPT ![2] = t],
          !.delta_s_pb = IF sector_time(s.best_s_pb[2])
                         THEN [@ EXCEPT ![2] = t - s.best_s_pb[2] + s.delta_s_pb[1]]
                         ELSE @,
          !.delta_s_tb = DeltaTB(@, s.best_s_tb, 2, t),
          !.no_delta_s = ~sector_time(s.best_s_tb[2]),
          !.best_s_tb = SaveBest(@, 2, t)]

\* sector 2 with a delta that does not chain off sector 1
UpdateS2PerSector(s, in) ==
    LET t == in.curr_sector2 - in.curr_sector1
    IN [s EXCEPT
          !.last_sector_idx = in.sector_idx,
          !.prev_s = [@ EXCEPT ![2] = t],
          !.delta_s_pb = IF sector_time(s.best_s_pb[2])
                         THEN [@ EXCEPT ![2] = t - s.best_s_pb[2]]
                         ELSE @,
          !.delta_s_tb = DeltaTB(@, s.best_s_tb, 2, t),
          !.no_delta_s = ~sector_time(s.best_s_tb[2]),
          !.best_s_tb = SaveBest(@, 2, t)]

\* sector_idx == 2: sector 2 of the current lap
UpdateS2(s, in) ==
    LET t == in.curr_sector2 - in.curr_sector1
    IN [s EXCEPT
          !.last_sector_idx = in.sector_idx,
          !.prev_s = [@ EXCEPT ![2] = t],
          !.delta_s_pb = IF sector_time(s.best_s_pb[2])
                         THEN [@ EXCEPT ![2] = t - s.best_s_pb[2] + s.delta_s_pb[1]]
                         ELSE @,
          !.delta_s_tb = DeltaTB(@, s.best_s_tb, 2, t),
          !.no_delta_s = ~sector_time(s.best_s_tb[2]),
          !.best_s_tb = SaveBest(@, 2, t)]

\* the branch taken without the test of the last accepted index
AcceptedAnyTick(s, in) ==
    IF in.sector_idx = 0 /\ in.laptime_valid > 0 /\ in.last_sector2 > 0 THEN 3
    ELSE IF in.sector_idx = 1 /\ in.curr_sector1 > 0 THEN 1
    ELSE IF in.sector_idx = 2 /\ in.curr_sector2 > 0 /\ in.curr_sector1 > 0 THEN 2
    ELSE 0

\* which branch of "Update previous & best sector time" is taken: 0 for none
Accepted(s, in) ==
    IF s.last_sector_idx = in.sector_idx THEN 0
    ELSE IF in.sector_idx = 0 /\ in.laptime_valid > 0 /\ in.last_sector2 > 0 THEN 3
    ELSE IF in.sector_idx = 1 /\ in.curr_sector1 > 0 THEN 1
    ELSE IF in.sector_idx = 2 /\ in.curr_sector2 > 0 /\ in.curr_sector1 > 0 THEN 2
    ELSE 0

SectorsUpdate(s, in) ==
    CASE Accepted(s, in) = 3 -> UpdateS3(s, in)
      [] Accepted(s, in) = 1 -> UpdateS1(s, in)
      [] Accepted(s, in) = 2 -> UpdateS2(s, in)
      [] OTHER -> s

\* the index published as it is stored
PublishUnclamped(s) ==
    [published |-> TRUE,
     sectorIndex |-> s.last_sector_idx,
     deltaSectorBestPB |-> s.delta_s_pb,
     deltaSectorBestTB |-> s.delta_s_tb,
     sectorBestTB |-> s.best_s_tb,
     sectorBestPB |-> s.best_s_pb,
     sectorPrev |-> s.prev_s,
     noDeltaSector |-> s.no_delta_s]

\* "Output sectors data"
Publish(s) ==
    LET lo == IF s.last_sector_idx > 0 THEN s.last_sector_idx ELSE 0
    IN [published |-> TRUE,
        sectorIndex |-> IF lo < 2 THEN lo ELSE 2,
        deltaSectorBestPB |-> s.delta_s_pb,
        deltaSectorBestTB |-> s.delta_s_tb,
        sectorBestTB |-> s.best_s_tb,
        sectorBestPB |-> s.best_s_pb,
        sectorPrev |-> s.prev_s,
        noDeltaSector |-> s.no_delta_s]

\* the locals of a worker that has not seen a session yet
SecIdle ==
    [reset |-> FALSE, update_interval |-> "active", last_sector_idx |-> -1,
     combo_id |-> <<>>, session_id |-> <<0, 0, 0>>,
     laptime_best |-> MAGIC_NUM, best_s_tb |-> Unset3, best_s_pb |-> Unset3,
     delta_s_tb |-> <<0, 0, 0>>, delta_s_pb |-> <<0, 0, 0>>,
     prev_s |-> Unset3, no_delta_s |-> TRUE]

\* the "if not reset:" block, given the result of load_sector_data
SecReset(combo_id, session_id, loaded) ==
    [reset |-> TRUE, update_interval |-> "active", last_sector_idx |-> -1,
     combo_id |-> combo_id, session_id |-> session_id,
     laptime_best |-> loaded.laptime_best,
     best_s_tb |-> loaded.best_s_tb, best_s_pb |-> loaded.best_s_pb,
     delta_s_tb |-> <<0, 0, 0>>, delta_s_pb |-> <<0, 0, 0>>,
     prev_s |-> Unset3, no_delta_s |-> TRUE]

MinfoUnset ==
    [published |-> FALSE, sectorIndex |-> 0,
     deltaSectorBestPB |-> <<0, 0, 0>>, deltaSectorBestTB |-> <<0, 0, 0>>,
     sectorBestTB |-> Unset3, sectorBestPB |-> Unset3,
     sectorPrev |-> Unset3, noDeltaSector |-> TRUE]

\* ------------------------------------------- telemetry side of a lap
\* The car crossed the start/finish line between two readings exactly when
\* the reported sector index wrapped.  split_age[i] is the lap prev_s[i]
\* (sector 1, sector 2) was driven in: 0 the lap in progress, 1 the lap just
\* completed, 2 older or none.  Sector 3 is always of the lap just completed.
\* The bookkeeping runs only when track is set (by the initial state).
LapIdle(track) == [track |-> track, env_sector |-> -1, split_age |-> <<2, 2>>]

Older(a) == IF a < 2 THEN a + 1 ELSE 2

LapStep(l, sector_idx, acc) ==
    LET crossed == sector_idx \in 0..2 /\ sector_idx < l.env_sector
        aged == IF crossed THEN [i \in 1..2 |-> Older(l.split_age[i])]
                ELSE l.split_age
    IN IF ~l.track THEN l
       ELSE [track |-> TRUE,
             env_sector |-> IF sector_idx \in 0..2 THEN sector_idx ELSE l.env_sector,
             split_age |-> IF acc \in 1..2 THEN [aged EXCEPT ![acc] = 0]
                           ELSE aged]

\* ------------------------------------------------------------ inputs
\* api.read.check.combo_id()
Combos == {<<Txt("c1")>>}
\* api.read.check.session_id(): (type, elapsed time, total laps)
SessionIds == {<<1, 0, 0>>}
\* sector and lap times read from telemetry; 0 stands for "not available"
TimeVals == 0..MaxTime
\* api.read.lap.sector_index(), with out-of-range readings
SectorIdxVals == -1..3

\* The readings of one tick.  A reading that the branch taken for the
\* reported sector index never looks at is fixed to 0.
SectorInputs ==
    LET R(i, lv, c1, c2, l2) ==
            [sector_idx |-> i, laptime_valid |-> lv, curr_sector1 |-> c1,
             curr_sector2 |-> c2, last_sector2 |-> l2]
    IN {R(0, lv, 0, 0, l2) : lv \in TimeVals, l2 \in TimeVals}
       \cup {R(1, 0, c1, 0, 0) : c1 \in TimeVals}
       \cup {R(2, 0, c1, c2, 0) : c1 \in TimeVals, c2 \in TimeVals}
       \cup {R(i, 0, 0, 0, 0) : i \in SectorIdxVals \ (0..2)}

\* ---------------------------------------------------------- lifecycle
\* start() without its `if self.stopped:`
StartAlways(e) == TRUE

\* start(): a no-op unless stopped; the new thread begins with fresh locals
StartGuard(e) == stopped[e]

Start(e) ==
    /\ StartGuard(e)
    /\ stopped' = [stopped EXCEPT ![e] = FALSE]
    /\ event' = [event EXCEPT ![e] = FALSE]
    /\ pc' = [pc EXCEPT ![e][1] = "loop"]
    /\ active_module_list' = Append(active_module_list, e)

\* stop(): self.event.set()
Stop(e) ==
    /\ event' = [event EXCEPT ![e] = TRUE]
    /\ UNCHANGED <<stopped, pc, active_module_list>>

\* list.remove(x): the first occurrence of x
RECURSIVE Remove(_, _)
Remove(l, x) ==
    IF Len(l) = 0 THEN l
    ELSE IF Head(l) = x THEN Tail(l)
    ELSE <<Head(l)>> \o Remove(Tail(l), x)

\* event.wait() returned True: the code after the loop
Exit(e) ==
    /\ pc[e][1] = "loop"
    /\ event[e]
    /\ active_module_list' = Remove(active_module_list, e)
    /\ stopped' = [stopped EXCEPT ![e] = TRUE]
    /\ pc' = [pc EXCEPT ![e][1] = "none"]
    /\ UNCHANGED event

\* event.wait(update_interval) returned False: the loop body runs
Awake(e) == pc[e][1] = "loop" /\ ~event[e]

\* ------------------------------------------------- sectors: actions
SectorsStart ==
    /\ Start("sectors")
    /\ sec' = SecIdle
    /\ lapinfo' = LapIdle(lapinfo.track)
    /\ UNCHANGED <<ctl, sector_info, minfo_sectors, fuelVars, sessions, ld>>

SectorsStop ==
    /\ Stop("sectors")
    /\ UNCHANGED <<ctl, secVars, fuelVars, sessions, ld>>

SectorsExit ==
    /\ Exit("sectors")
    /\ sec' = SecIdle
    /\ lapinfo' = LapIdle(lapinfo.track)
    /\ UNCHANGED <<ctl, sector_info, minfo_sectors, fuelVars, sessions, ld>>

\* a tick with api.state true
SectorsActive ==
    /\ Awake("sectors")
    /\ ~sec.reset => sessions["sectors"] <
                         (IF lapinfo.track THEN MaxLapSessions ELSE MaxSessions)
    /\ \E id \in IF sec.reset THEN {<<sec.combo_id, sec.session_id>>}
                 ELSE Combos \X SessionIds :
         LET combo_id == id[1]
             session_id == id[2]
             loaded == load_sector_data(sector_info, combo_id, session_id)
             s0 == IF sec.reset THEN sec ELSE SecReset(combo_id, session_id, loaded)
             l0 == IF sec.reset THEN lapinfo ELSE LapIdle(lapinfo.track)
         IN /\ IF ~sec.reset /\ loaded.raised # "none"
               THEN \* the exception ends the thread
                    /\ pc' = [pc EXCEPT !["sectors"][1] = "dead"]
                    /\ sec' = [SecIdle EXCEPT !.reset = TRUE]
                    /\ UNCHANGED <<lapinfo, minfo_sectors>>
               ELSE \E in \in SectorInputs :
                    /\ sec' = SectorsUpdate(s0, in)
                    /\ lapinfo' = LapStep(l0, in.sector_idx, Accepted(s0, in))
                    /\ minfo_sectors' = Publish(sec')
                    /\ UNCHANGED pc
            /\ sessions' = IF sec.reset THEN sessions
                           ELSE [sessions EXCEPT !["sectors"] = @ + 1]
    /\ UNCHANGED <<stopped, event, active_module_list, ctl, sector_info,
                   fuelVars, ld>>

\* a tick with api.state false
SectorsIdle ==
    /\ Awake("sectors")
    /\ IF sec.reset
       THEN /\ sec' = [sec EXCEPT !.reset = FALSE, !.update_interval = "idle"]
            /\ sector_info' = save_sector_data(sector_info, sec.combo_id,
                   sec.session_id, sec.best_s_pb, sec.laptime_best, sec.best_s_tb)
       ELSE UNCHANGED <<sec, sector_info>>
    /\ UNCHANGED <<stopped, event, active_module_list, pc, ctl, lapinfo,
                   minfo_sectors, fuelVars, sessions, ld>>

\* ------------------------------------------------- fuel: curve and file
\* A curve is a list of rows (distance, fuel used) closed by a row
\* (distance, fuel used, laptime).  The file holds one line per row, each
\* line the fields of the row as text.
DELTA_ZERO == <<0, 0>>
DefaultCurve == <<<<MAGIC_NUM, 0, 0>>>>
NoFile == [exists |-> FALSE, rows |-> <<>>]

\* a quoted field of a csv file, c naming its text
Quo(c) == [k |-> "quo", s |-> "", n |-> c]
IsQuoted(field) == Len(field) = 1 /\ field[1].k = "quo"

\* a str among the values of a row is held as a number below StrBase, so
\* that a row can hold floats and strs side by side
StrBase == -1000
StrVal(c) == StrBase - c
IsStr(v) == v < StrBase

\* a value as csv.writer writes it: str(x) of a number, a str as it is
\* (unquoted, so that a reader takes it for a field that is not a number)
CsvField(v) ==
    IF IsStr(v) THEN <<[k |-> "txt", s |-> "", n |-> StrBase - v]>>
    ELSE StrOf(v)

\* a writer that leaves out the third value of a row
CsvWriteTwoValues(listname) ==
    [i \in 1..Len(listname) |->
        [j \in 1..(IF Len(listname[i]) > 2 THEN 2 ELSE Len(listname[i])) |->
            CsvField(listname[i][j])]]

\* csv.writer(csvfile).writerows(listname)
CsvWrite(listname) ==
    [i \in 1..Len(listname) |->
        [j \in 1..Len(listname[i]) |-> CsvField(listname[i][j])]]

\* csv.reader(csvfile, quoting=csv.QUOTE_NONNUMERIC): every field that is
\* not quoted through float(), which raises ValueError on a field that is
\* not a number; a quoted field stays a str
CsvNumeric(rows) ==
    \A i \in 1..Len(rows) : \A j \in 1..Len(rows[i]) :
        IsQuoted(rows[i][j]) \/ IsFloat(rows[i][j])
CsvRead(rows) ==
    [i \in 1..Len(rows) |->
        [j \in 1..Len(rows[i]) |->
            IF IsQuoted(rows[i][j]) THEN StrVal(rows[i][j][1].n)
            ELSE FloatOf(rows[i][j])]]

\* val.delta_list(listname): distances strictly increase and the fuel used
\* never decreases
delta_list(l) ==
    \A i \in 1..(Len(l) - 1) : l[i][1] < l[i+1][1] /\ l[i][2] <= l[i+1][2]

\* what val.delta_list leaves of a list it rejects: the rows that keep the
\* list increasing
RECURSIVE delta_list_kept(_, _)
delta_list_kept(kept, rest) ==
    IF Len(rest) = 0 THEN kept
    ELSE LET r == Head(rest)
             last == kept[Len(kept)]
         IN delta_list_kept(
                IF Len(kept) = 0 \/ (last[1] < r[1] /\ last[2] <= r[2])
                THEN Append(kept, r) ELSE kept,
                Tail(rest))

\* what val.delta_list raises on a list: a row without a second value
\* cannot be compared (IndexError), a str cannot be compared with a float
\* (TypeError)
delta_list_raises(l) ==
    IF \E i \in 1..Len(l) : Len(l[i]) < 2 THEN "IndexError"
    ELSE IF Len(l) > 1 /\ \E i \in 1..Len(l) : IsStr(l[i][1]) \/ IsStr(l[i][2])
    THEN "TypeError"
    ELSE "none"

\* a save that writes a list of any length
save_deltafuel_always(file, listname) ==
    [exists |-> TRUE, rows |-> CsvWrite(listname)]

\* save_deltafuel(combo, listname): the file after the call
save_deltafuel(file, listname) ==
    IF Len(listname) > 1
    THEN [exists |-> TRUE, rows |-> CsvWrite(listname)]
    ELSE file

\* the except branch of load_deltafuel
LoadFuelDefault(file, wrote) ==
    [raised |-> "none", lastlist |-> DefaultCurve, used_last |-> 0,
     laptime_last |-> 0, file |-> file, wrote |-> wrote]

\* lastlist[-1][1] and lastlist[-1][2] can be read
LastRowReadable(l) == Len(l) > 0 /\ Len(l[Len(l)]) >= 3

\* an exception leaves the try block of load_deltafuel
LoadRaise(exc, file, wrote) ==
    [raised |-> exc, lastlist |-> <<>>, used_last |-> 0, laptime_last |-> 0,
     file |-> file, wrote |-> wrote]

\* the try block of load_deltafuel: the exception that leaves it, or the
\* values assigned, the file after it and whether it wrote the file
LoadTry(file) ==
    IF ~file.exists THEN LoadRaise("FileNotFoundError", file, FALSE)
    ELSE IF ~CsvNumeric(file.rows) THEN LoadRaise("ValueError", file, FALSE)
    ELSE LET lastlist == CsvRead(file.rows)
         IN IF ~LastRowReadable(lastlist)
            THEN LoadRaise("IndexError", file, FALSE)
            ELSE IF delta_list_raises(lastlist) # "none"
            THEN LoadRaise(delta_list_raises(lastlist), file, FALSE)
            ELSE IF delta_list(lastlist)
            THEN [raised |-> "none", lastlist |-> lastlist,
                  used_last |-> lastlist[Len(lastlist)][2],
                  laptime_last |-> lastlist[Len(lastlist)][3],
                  file |-> file, wrote |-> FALSE]
            ELSE LET fixed == delta_list_kept(<<>>, lastlist)
                     saved == save_deltafuel(file, fixed)
                 IN IF ~LastRowReadable(fixed)
                    THEN LoadRaise("IndexError", saved, Len(fixed) > 1)
                    ELSE [raised |-> "none", lastlist |-> fixed,
                          used_last |-> fixed[Len(fixed)][2],
                          laptime_last |-> fixed[Len(fixed)][3],
                          file |-> saved, wrote |-> Len(fixed) > 1]

\* the exceptions the except clause of load_deltafuel names
LoadCaught == {"FileNotFoundError", "IndexError", "ValueError", "TypeError"}

\* load_deltafuel(combo): the values returned, the file after the call and
\* whether the call wrote it; raised names an exception that reaches the
\* caller
load_deltafuel(file) ==
    LET t == LoadTry(file)
    IN IF t.raised \in LoadCaught THEN LoadFuelDefault(t.file, t.wrote)
       ELSE t

\* ------------------------------------------------- fuel: one tick
\* the locals when the thread starts; those assigned first in the reset
\* block are given the values of that block
FuelIdleLocals ==
    [reset |-> FALSE, delayed_save |-> FALSE, update_interval |-> "active",
     recording |-> FALSE, validating |-> FALSE, pit_lap |-> FALSE,
     delta_list_last |-> DefaultCurve, used_last |-> 0, laptime_last |-> 0,
     delta_list_curr |-> <<DELTA_ZERO>>, delta_list_temp |-> <<DELTA_ZERO>>,
     amount_start |-> 0, amount_last |-> 0, used_curr |-> 0,
     used_last_raw |-> 0, last_lap_stime |-> -1, pos_last |-> 0]

\* ticked: the loop of the thread has run a tick; in_pits: the in-pit
\* reading of the last tick; minfo: fields of minfo.fuel, which outlives the
\* thread
IoIdle == [wrote |-> FALSE, confirmed_now |-> FALSE, confirmed |-> FALSE,
           decreased |-> FALSE, laps |-> 0, pending_laps |-> 0,
           adopted_age |-> 0,
           env |-> [max_laps |-> MaxLaps, steady |-> FALSE, full |-> FALSE,
                    pits |-> TRUE],
           ticked |-> FALSE, in_pits |-> FALSE,
           minfo |-> [published |-> FALSE, amountFuelStart |-> 0,
                      amountFuelCurrent |-> 0, lastLapFuelConsumption |-> 0]]

\* a new thread, the telemetry side and the published fields as they were
IoFresh(io) == [IoIdle EXCEPT !.env = io.env, !.minfo = io.minfo]

\* a reset block that leaves the curve being recorded and its consumption
FuelResetKeepingLap(f, loaded) ==
    [f EXCEPT !.reset = TRUE, !.update_interval = "active",
              !.recording = FALSE, !.validating = FALSE,
              !.delayed_save = FALSE, !.pit_lap = FALSE,
              !.delta_list_last = loaded.lastlist,
              !.used_last = loaded.used_last,
              !.laptime_last = loaded.laptime_last,
              !.delta_list_temp = <<DELTA_ZERO>>,
              !.amount_start = 0, !.amount_last = 0,
              !.used_last_raw = loaded.used_last,
              !.last_lap_stime = -1, !.pos_last = 0]

\* "if not reset:" block
FuelReset(f, loaded) ==
    [f EXCEPT !.reset = TRUE, !.update_interval = "active",
              !.recording = FALSE, !.validating = FALSE,
              !.delayed_save = FALSE, !.pit_lap = FALSE,
              !.delta_list_last = loaded.lastlist,
              !.used_last = loaded.used_last,
              !.laptime_last = loaded.laptime_last,
              !.delta_list_curr = <<DELTA_ZERO>>,
              !.delta_list_temp = <<DELTA_ZERO>>,
              !.amount_start = 0, !.amount_last = 0, !.used_curr = 0,
              !.used_last_raw = loaded.used_last,
              !.last_lap_stime = -1, !.pos_last = 0]

\* every change of the fuel level counted as consumption, a refuel as a
\* negative one
ConsumeSigned(f, amount_curr) ==
    [f EXCEPT !.used_curr = @ + (f.amount_last - amount_curr),
              !.amount_last = amount_curr]

\* "Realtime fuel consumption"
Consume(f, amount_curr) ==
    IF f.amount_last < amount_curr
    THEN [f EXCEPT !.amount_last = amount_curr, !.amount_start = amount_curr]
    ELSE IF f.amount_last > amount_curr
    THEN [f EXCEPT !.used_curr = @ + (f.amount_last - amount_curr),
                   !.amount_last = amount_curr]
    ELSE f

\* a lap boundary on every decrease of the lap start time
NewLapOnDecrease(f, lap_stime) ==
    lap_stime < f.last_lap_stime /\ f.last_lap_stime # -1

\* lap_stime > last_lap_stime != -1
NewLap(f, lap_stime) == lap_stime > f.last_lap_stime /\ f.last_lap_stime # -1

\* the tick closes the curve of the finished lap and makes it the pending one
Closes(f, in) ==
    /\ NewLap(f, in.lap_stime)
    /\ Len(f.delta_list_curr) > 1
    /\ ~(f.pit_lap \/ in.in_pits)

\* the curve staged whether or not the pits were seen
LapDetectAnyLap(f, in) ==
    IF NewLap(f, in.lap_stime)
    THEN LET closes == Len(f.delta_list_curr) > 1
         IN [f EXCEPT !.delta_list_temp =
                          IF closes
                          THEN Append(f.delta_list_curr,
                                      <<f.pos_last + EndGap, f.used_curr,
                                        in.lap_stime - f.last_lap_stime>>)
                          ELSE @,
                      !.validating = closes \/ @,
                      !.delta_list_curr = <<DELTA_ZERO>>,
                      !.pos_last = in.pos_curr,
                      !.used_last_raw = f.used_curr,
                      !.used_curr = 0,
                      !.recording = in.laptime_curr < Sec1,
                      !.pit_lap = FALSE,
                      !.last_lap_stime = in.lap_stime]
    ELSE [f EXCEPT !.last_lap_stime = in.lap_stime]

\* "Lap start & finish detection"
LapDetect(f, in) ==
    IF NewLap(f, in.lap_stime)
    THEN LET closes == Len(f.delta_list_curr) > 1 /\ ~f.pit_lap
         IN [f EXCEPT !.delta_list_temp =
                          IF closes
                          THEN Append(f.delta_list_curr,
                                      <<f.pos_last + EndGap, f.used_curr,
                                        in.lap_stime - f.last_lap_stime>>)
                          ELSE @,
                      !.validating = closes \/ @,
                      !.delta_list_curr = <<DELTA_ZERO>>,
                      !.pos_last = in.pos_curr,
                      !.used_last_raw = f.used_curr,
                      !.used_curr = 0,
                      !.recording = in.laptime_curr < Sec1,
                      !.pit_lap = FALSE,
                      !.last_lap_stime = in.lap_stime]
    ELSE [f EXCEPT !.last_lap_stime = in.lap_stime]

\* "1 sec position distance check after new lap begins" and "Update if
\* position value is different & positive"
PositionUpdate(f, in) ==
    LET far == 0 < in.laptime_curr /\ in.laptime_curr < Sec1
               /\ in.pos_curr > FarDistance
        pos_curr == IF far THEN 0 ELSE in.pos_curr
        pos_last == IF far THEN 0 ELSE f.pos_last
    IN IF 0 <= pos_curr /\ pos_curr # pos_last
       THEN [f EXCEPT !.delta_list_curr =
                          IF f.recording /\ pos_curr > pos_last
                          THEN Append(@, <<pos_curr, f.used_curr>>) ELSE @,
                      !.pos_last = pos_curr]
       ELSE [f EXCEPT !.pos_last = pos_last]

\* the confirmation without queueing the save
ConfirmUnqueued(f, laptime_valid) ==
    [f EXCEPT !.used_last = f.used_last_raw,
              !.laptime_last = laptime_valid,
              !.delta_list_last = f.delta_list_temp,
              !.delta_list_temp = <<DELTA_ZERO>>,
              !.validating = FALSE]

\* the pending curve becomes the reference curve
Confirm(f, laptime_valid) ==
    [f EXCEPT !.used_last = f.used_last_raw,
              !.laptime_last = laptime_valid,
              !.delta_list_last = f.delta_list_temp,
              !.delta_list_temp = <<DELTA_ZERO>>,
              !.validating = FALSE,
              !.delayed_save = TRUE]

\* the tick confirms the pending curve
Confirms(f, in) ==
    /\ f.validating
    /\ Sec02 < in.laptime_curr /\ in.laptime_curr <= Sec3
    /\ in.laptime_valid > 0

\* the confirmation without the test of the last laptime
ValidateAnyLaptime(f, in) ==
    IF f.validating /\ Sec02 < in.laptime_curr /\ in.laptime_curr <= Sec3
    THEN Confirm(f, in.laptime_valid)
    ELSE IF f.validating /\ Sec3 < in.laptime_curr /\ in.laptime_curr < Sec5
    THEN [f EXCEPT !.validating = FALSE]
    ELSE f

\* "Validating 1s after passing finish line"
Validate(f, in) ==
    IF Confirms(f, in) THEN Confirm(f, in.laptime_valid)
    ELSE IF f.validating /\ Sec3 < in.laptime_curr /\ in.laptime_curr < Sec5
    THEN [f EXCEPT !.validating = FALSE]
    ELSE f

\* the locals before "Validating": telemetry read, consumption, lap
\* detection, position
FuelTrack(f, in) ==
    LET f1 == [f EXCEPT !.pit_lap = @ \/ in.in_pits]
    IN PositionUpdate(LapDetect(Consume(f1, in.amount_curr), in), in)

\* telemetry of one tick.  current_laptime takes one value in each range
\* the code tells apart: 0, (0, 0.2], (0.2, 1), [1, 3], (3, 5), [5, ..)
LaptimeVals == {0, 2, 5, 20, 40, 60}
PosVals == (-1..MaxPos) \cup {FarDistance + 1}
\* the telemetry side: laps per session; steady: the lap start time goes up
\* by one each lap; full: the fuel level stays at MaxFuel; pits: the car
\* may be in the pits
EnvFree ==
    [max_laps |-> MaxLaps, steady |-> FALSE, full |-> FALSE, pits |-> TRUE]
EnvSteady ==
    [max_laps |-> MaxSteadyLaps, steady |-> TRUE, full |-> TRUE, pits |-> TRUE]
\* steady lap start times with a fuel level that moves, away from the pits
EnvBurn ==
    [max_laps |-> MaxSteadyLaps, steady |-> TRUE, full |-> FALSE, pits |-> FALSE]
StimeVals(env) == IF env.steady THEN 0..env.max_laps ELSE 0..MaxStime
FuelInputsFor(env) ==
    [lap_stime : StimeVals(env), laptime_curr : LaptimeVals,
     laptime_valid : 0..1, amount_curr : 0..MaxFuel, in_pits : BOOLEAN,
     pos_curr : PosVals]
FuelInputs == FuelInputsFor(EnvFree)

\* A reading the tick does not examine is taken as 0 or FALSE: in_pits when
\* pit_lap is set already, last_laptime outside a confirmation, and
\* current_laptime beyond the tests that the tick evaluates.
Examined(f, in) ==
    LET tracked == FuelTrack(f, in)
        windows == tracked.validating
        starts == NewLap(f, in.lap_stime) \/ in.pos_curr > FarDistance
    IN /\ f.pit_lap => ~in.in_pits
       /\ ~(windows /\ Sec02 < in.laptime_curr /\ in.laptime_curr <= Sec3)
             => in.laptime_valid = 0
       /\ ~windows => in.laptime_curr \in {0, 5, 20}
       /\ ~windows /\ ~starts => in.laptime_curr = 0

\* ------------------------------------------------- fuel: actions
FuelStart ==
    /\ Start("fuel")
    /\ fuel' = FuelIdleLocals
    /\ fuel_io' = IoFresh(fuel_io)
    /\ UNCHANGED <<ctl, secVars, fuel_file, sessions, ld>>

FuelStop ==
    /\ Stop("fuel")
    /\ UNCHANGED <<ctl, secVars, fuelVars, sessions, ld>>

FuelExit ==
    /\ Exit("fuel")
    /\ fuel' = FuelIdleLocals
    /\ fuel_io' = IoFresh(fuel_io)
    /\ UNCHANGED <<ctl, secVars, fuel_file, sessions, ld>>

\* a tick with api.state true
FuelActive ==
    /\ Awake("fuel")
    /\ ~fuel.reset => sessions["fuel"] < MaxFuelSessions
    /\ LET loaded == load_deltafuel(fuel_file)
           f0 == IF fuel.reset THEN fuel ELSE FuelReset(fuel, loaded)
       IN /\ \E in \in FuelInputsFor(fuel_io.env) :
               LET tracked == FuelTrack(f0, in)
                   \* lap boundaries the pending curve has seen since it
                   \* was closed
                   seen == IF Closes(f0, in) \/ ~fuel.reset THEN 0
                           ELSE IF NewLap(f0, in.lap_stime) /\ f0.validating
                           THEN 1 ELSE fuel_io.pending_laps
               IN /\ Examined(f0, in)
                  /\ NewLap(f0, in.lap_stime) =>
                         fuel.reset /\ fuel_io.laps < fuel_io.env.max_laps
                  /\ fuel_io.env.full => in.amount_curr = MaxFuel
                  /\ in.in_pits => fuel_io.env.pits
                  /\ fuel_io.env.steady =>
                         /\ in.lap_stime \in {f0.last_lap_stime,
                                              f0.last_lap_stime + 1}
                               \/ f0.last_lap_stime = -1
                  /\ tracked.used_curr <= MaxFuel
                  /\ Len(tracked.delta_list_curr) <= 1 + MaxSamples
                  /\ fuel' = Validate(tracked, in)
                  /\ fuel_io' =
                       [wrote |-> ~fuel.reset /\ loaded.wrote,
                        confirmed_now |-> Confirms(tracked, in),
                        confirmed |-> (fuel.reset /\ fuel_io.confirmed)
                                      \/ Confirms(tracked, in),
                        decreased |-> (fuel.reset /\ fuel_io.decreased)
                                      \/ in.amount_curr < f0.amount_last,
                        laps |-> IF ~fuel.reset THEN 0
                                 ELSE IF NewLap(f0, in.lap_stime)
                                 THEN fuel_io.laps + 1 ELSE fuel_io.laps,
                        pending_laps |-> IF fuel'.validating THEN seen ELSE 0,
                        adopted_age |-> IF Confirms(tracked, in) THEN seen
                                        ELSE 0,
                        env |-> fuel_io.env,
                        ticked |-> TRUE,
                        in_pits |-> in.in_pits,
                        \* "Output fuel data"
                        minfo |-> [published |-> TRUE,
                                   amountFuelStart |-> fuel'.amount_start,
                                   amountFuelCurrent |-> in.amount_curr,
                                   lastLapFuelConsumption |->
                                       fuel'.used_last_raw]]
          /\ fuel_file' = IF fuel.reset THEN fuel_file ELSE loaded.file
    /\ sessions' = IF fuel.reset THEN sessions
                   ELSE [sessions EXCEPT !["fuel"] = @ + 1]
    /\ UNCHANGED <<stopped, event, active_module_list, pc, ctl, secVars, ld>>

\* an idle tick that clears the published fields
FuelIdleClearing ==
    /\ Awake("fuel")
    /\ fuel' = [fuel EXCEPT !.reset = FALSE, !.update_interval = "idle"]
    /\ fuel_file' = IF fuel.reset /\ fuel.delayed_save
                    THEN save_deltafuel(fuel_file, fuel.delta_list_last)
                    ELSE fuel_file
    /\ fuel_io' = [fuel_io EXCEPT
                      !.wrote = fuel.reset /\ fuel.delayed_save
                                /\ Len(fuel.delta_list_last) > 1,
                      !.confirmed_now = FALSE,
                      !.adopted_age = 0,
                      !.ticked = TRUE,
                      !.in_pits = FALSE,
                      !.minfo = IoIdle.minfo]
    /\ UNCHANGED <<stopped, event, active_module_list, pc, ctl, secVars,
                   sessions, ld>>

\* a tick with api.state false
FuelIdle ==
    /\ Awake("fuel")
    /\ IF fuel.reset
       THEN /\ fuel' = [fuel EXCEPT !.reset = FALSE, !.update_interval = "idle"]
            /\ fuel_file' = IF fuel.delayed_save
                            THEN save_deltafuel(fuel_file, fuel.delta_list_last)
                            ELSE fuel_file
            /\ fuel_io' = [fuel_io EXCEPT
                              !.wrote = fuel.delayed_save
                                        /\ Len(fuel.delta_list_last) > 1,
                              !.confirmed_now = FALSE,
                              !.adopted_age = 0,
                              !.ticked = TRUE,
                              !.in_pits = FALSE]
       ELSE /\ fuel_io' = [fuel_io EXCEPT !.wrote = FALSE,
                                          !.confirmed_now = FALSE,
                                          !.adopted_age = 0,
                                          !.ticked = TRUE,
                                          !.in_pits = FALSE]
            /\ UNCHANGED <<fuel, fuel_file>>
    /\ UNCHANGED <<stopped, event, active_module_list, pc, ctl, secVars,
                   sessions, ld>>

\* ------------------------------------------- load_sector_data alone
\* The stored string of one call, described by how it was made: the fields
\* of a complete record, cut to `keep` fields, field `bad` (0 for none)
\* replaced by text that is no number, and `extra` more numeric fields.
LoadCombos == {<<Txt("c1")>>, <<Txt("c2")>>, <<Txt("None")>>}
IdVals == 0..MaxId
LoadSessionIds == IdVals \X IdVals \X IdVals
\* stored (best laptime, theoretical best, personal best)
Payloads == {<<2, <<1, 1, 1>>, <<1, 1, 1>>>>, <<3, <<1, 0, 1>>, <<2, 1, 1>>>>}
Keeps == {0, 1, 4, 10, 11}
Bads == {0, 2, 6}
BadTexts == {<<Txt("abc")>>, <<>>}

RecordFields(combo, sess, pay) ==
    <<combo>> \o [i \in 1..3 |-> StrOf(sess[i])] \o <<StrOf(pay[1])>>
    \o [i \in 1..3 |-> StrOf(pay[2][i])] \o [i \in 1..3 |-> StrOf(pay[3][i])]

StoredString(sh) ==
    LET full == RecordFields(sh.combo, sh.sess, sh.pay)
              \o [i \in 1..sh.extra |-> StrOf(0)]
        cut == SubSeq(full, 1, IF sh.keep < 11 THEN sh.keep ELSE Len(full))
        fields == [i \in 1..Len(cut) |-> IF i = sh.bad THEN sh.text ELSE cut[i]]
    IN pipe_join(fields)

Shapes ==
    [combo : LoadCombos, sess : LoadSessionIds, pay : Payloads,
     keep : Keeps, bad : Bads, text : BadTexts, extra : 0..1]

\* shapes that differ only in a part that is not used make the same string
ShapeOk(sh) ==
    /\ sh.bad = 0 => sh.text = <<>>
    /\ sh.bad > sh.keep => sh.bad = 0
    /\ sh.keep < 11 => sh.extra = 0
    /\ sh.keep < 11 => sh.pay[1] = 2

\* a complete record: at least 11 fields, every one after the first a number
Complete(sh) == sh.keep = 11 /\ sh.bad = 0

LdIdle == [shape |-> [combo |-> <<>>, sess |-> <<0, 0, 0>>,
                      pay |-> <<2, <<1, 1, 1>>, <<1, 1, 1>>>>,
                      keep |-> 0, bad |-> 0, text |-> <<>>, extra |-> 0],
           info |-> <<>>, combo_id |-> <<>>, session_id |-> <<0, 0, 0>>,
           done |-> FALSE, out |-> LoadDefault("none")]

\* one call load_sector_data(combo_id, session_id) on the stored string
LoadCall ==
    /\ \E combo_id \in LoadCombos, session_id \in LoadSessionIds :
         ld' = [ld EXCEPT !.combo_id = combo_id, !.session_id = session_id,
                          !.done = TRUE,
                          !.out = load_sector_data(ld.info, combo_id, session_id)]
    /\ UNCHANGED <<stopped, event, active_module_list, pc, ctl, secVars,
                   fuelVars, sessions>>

InitLoad ==
    /\ stopped = [e \in Estimators |-> TRUE]
    /\ event = [e \in Estimators |-> FALSE]
    /\ active_module_list = <<>>
    /\ pc = NoThreads
    /\ ctl = CtlIdle
    /\ sec = SecIdle
    /\ sector_info = <<>>
    /\ lapinfo = LapIdle(FALSE)
    /\ minfo_sectors = MinfoUnset
    /\ fuel = FuelIdleLocals
    /\ fuel_file = NoFile
    /\ fuel_io = IoIdle
    /\ sessions = [e \in Estimators |-> 0]
    /\ \E sh \in Shapes :
         /\ ShapeOk(sh)
         /\ ld = [LdIdle EXCEPT !.shape = sh, !.info = StoredString(sh)]

NextLoad == LoadCall

SpecLoad == InitLoad /\ [][NextLoad]_vars

InitSectors ==
    /\ stopped = [e \in Estimators |-> TRUE]
    /\ event = [e \in Estimators |-> FALSE]
    /\ active_module_list = <<>>
    /\ pc = NoThreads
    /\ ctl = CtlIdle
    /\ sec = SecIdle
    /\ sector_info = <<>>
    /\ lapinfo = LapIdle(FALSE)
    /\ minfo_sectors = MinfoUnset
    /\ fuel = FuelIdleLocals
    /\ fuel_file = NoFile
    /\ fuel_io = IoIdle
    /\ sessions = [e \in Estimators |-> 0]
    /\ ld = LdIdle

NextSectors ==
    \/ SectorsStart
    \/ SectorsStop
    \/ SectorsExit
    \/ SectorsActive
    \/ SectorsIdle

SpecSectors == InitSectors /\ [][NextSectors]_vars

\* the same estimator, with the laps of the splits tracked
InitLaps ==
    /\ stopped = [e \in Estimators |-> TRUE]
    /\ event = [e \in Estimators |-> FALSE]
    /\ active_module_list = <<>>
    /\ pc = NoThreads
    /\ ctl = CtlIdle
    /\ sec = SecIdle
    /\ sector_info = <<>>
    /\ lapinfo = LapIdle(TRUE)
    /\ minfo_sectors = MinfoUnset
    /\ fuel = FuelIdleLocals
    /\ fuel_file = NoFile
    /\ fuel_io = IoIdle
    /\ sessions = [e \in Estimators |-> 0]
    /\ ld = LdIdle

SpecLaps == InitLaps /\ [][NextSectors]_vars

\* the file an earlier run left: none; the curve of a lap with one sample;
\* the curve of a lap that began at a negative position
StoredCurves ==
    {<<DELTA_ZERO, <<FarDistance + 1, 1>>, <<FarDistance + 1 + EndGap, 1, 1>>>>,
     <<DELTA_ZERO, <<0, 1>>, <<EndGap, 1, 1>>>>}
StoredFiles == {NoFile} \cup {save_deltafuel(NoFile, l) : l \in StoredCurves}

InitFuel ==
    /\ stopped = [e \in Estimators |-> TRUE]
    /\ event = [e \in Estimators |-> FALSE]
    /\ active_module_list = <<>>
    /\ pc = NoThreads
    /\ ctl = CtlIdle
    /\ sec = SecIdle
    /\ sector_info = <<>>
    /\ lapinfo = LapIdle(FALSE)
    /\ minfo_sectors = MinfoUnset
    /\ fuel = FuelIdleLocals
    /\ fuel_file \in StoredFiles
    /\ fuel_io = IoIdle
    /\ sessions = [e \in Estimators |-> 0]
    /\ ld = LdIdle

NextFuel ==
    \/ FuelStart
    \/ FuelStop
    \/ FuelExit
    \/ FuelActive
    \/ FuelIdle

SpecFuel == InitFuel /\ [][NextFuel]_vars

\* the same worker with no stored curve and a fuel level that stays at
\* MaxFuel, over more laps
InitFuelLaps ==
    /\ stopped = [e \in Estimators |-> TRUE]
    /\ event = [e \in Estimators |-> FALSE]
    /\ active_module_list = <<>>
    /\ pc = NoThreads
    /\ ctl = CtlIdle
    /\ sec = SecIdle
    /\ sector_info = <<>>
    /\ lapinfo = LapIdle(FALSE)
    /\ minfo_sectors = MinfoUnset
    /\ fuel = FuelIdleLocals
    /\ fuel_file = NoFile
    /\ fuel_io = [IoIdle EXCEPT !.env = EnvSteady]
    /\ sessions = [e \in Estimators |-> 0]
    /\ ld = LdIdle

SpecFuelLaps == InitFuelLaps /\ [][NextFuel]_vars

\* a running worker over the same laps, burning fuel
InitFuelBurn ==
    /\ stopped = [e \in Estimators |-> e # "fuel"]
    /\ event = [e \in Estimators |-> FALSE]
    /\ active_module_list = <<"fuel">>
    /\ pc = [NoThreads EXCEPT !["fuel"][1] = "loop"]
    /\ ctl = CtlIdle
    /\ sec = SecIdle
    /\ sector_info = <<>>
    /\ lapinfo = LapIdle(FALSE)
    /\ minfo_sectors = MinfoUnset
    /\ fuel = FuelIdleLocals
    /\ fuel_file = NoFile
    /\ fuel_io = [IoIdle EXCEPT !.env = EnvBurn]
    /\ sessions = [e \in Estimators |-> 0]
    /\ ld = LdIdle

NextFuelBurn == FuelActive \/ FuelIdle

SpecFuelBurn == InitFuelBurn /\ [][NextFuelBurn]_vars

\* ================================================ fuel: projections
\* A float is held as a fraction <<n, d>> in lowest terms with d > 0.  The
\* fraction with d = 0 stands for ZeroDivisionError: a division by zero
\* gives it, and every operation on it gives it again, as the exception
\* leaves the expression and the statements after it.
RECURSIVE GCD(_, _)
GCD(a, b) == IF b = 0 THEN a ELSE GCD(b, a % b)
Abs(n) == IF n < 0 THEN 0 - n ELSE n
ZeroDivisionError == <<0, 0>>
Raised(a) == a[2] = 0
Norm(n, d) ==
    LET g == GCD(Abs(n), Abs(d))
    IN IF d < 0 THEN <<(0 - n) \div g, (0 - d) \div g>>
       ELSE <<n \div g, d \div g>>
R(n) == <<n, 1>>
RAdd(a, b) ==
    IF Raised(a) \/ Raised(b) THEN ZeroDivisionError
    ELSE Norm(a[1] * b[2] + b[1] * a[2], a[2] * b[2])
RSub(a, b) ==
    IF Raised(a) \/ Raised(b) THEN ZeroDivisionError
    ELSE Norm(a[1] * b[2] - b[1] * a[2], a[2] * b[2])
RMul(a, b) ==
    IF Raised(a) \/ Raised(b) THEN ZeroDivisionError
    ELSE Norm(a[1] * b[1], a[2] * b[2])
\* a / b
RDiv(a, b) ==
    IF Raised(a) \/ Raised(b) \/ b[1] = 0 THEN ZeroDivisionError
    ELSE Norm(a[1] * b[2], a[2] * b[1])
\* a < b, for two numbers
RLt(a, b) == a[1] * b[2] < b[1] * a[2]
RMin(a, b) ==
    IF Raised(a) \/ Raised(b) THEN ZeroDivisionError
    ELSE IF RLt(b, a) THEN b ELSE a
RMax(a, b) ==
    IF Raised(a) \/ Raised(b) THEN ZeroDivisionError
    ELSE IF RLt(a, b) THEN b ELSE a
\* math.modf(a)[0]: the fractional part, with the sign of a
Modf0(a) ==
    IF Raised(a) THEN ZeroDivisionError
    ELSE IF a[1] >= 0 THEN Norm(a[1] % a[2], a[2])
    ELSE Norm(0 - ((0 - a[1]) % a[2]), a[2])
\* math.ceil(a)
Ceil(a) ==
    IF Raised(a) THEN ZeroDivisionError
    ELSE IF a[1] >= 0 THEN R((a[1] + a[2] - 1) \div a[2])
    ELSE R(0 - ((0 - a[1]) \div a[2]))
\* the truth value of a number
Truthy(a) == a[1] # 0

end_lap_consumption(used_last, delta_fuel, condition) ==
    IF condition THEN RAdd(used_last, delta_fuel) ELSE used_last

end_stint_fuel(amount_curr, used_curr, used_est) ==
    IF Truthy(used_est)
    THEN LET total_fuel == RAdd(amount_curr, used_curr)
         IN RMul(Modf0(RDiv(total_fuel, used_est)), used_est)
    ELSE R(0)

\* the division without the test of used_est
end_stint_laps_unguarded(amount_curr, used_est) == RDiv(amount_curr, used_est)

end_stint_laps(amount_curr, used_est) ==
    IF Truthy(used_est) THEN RDiv(amount_curr, used_est) ELSE R(0)

end_lap_empty_capacity(capacity, fuel_remain, fuel_consumption) ==
    RAdd(RSub(capacity, fuel_remain), fuel_consumption)

end_stint_pit_counts(amount_need, capacity) == RDiv(amount_need, capacity)

end_lap_pit_counts(amount_need, est_empty, capacity) ==
    LET max_add_curr == RMin(amount_need, est_empty)
        est_pits_curr == IF Truthy(est_empty) THEN RDiv(max_add_curr, est_empty)
                         ELSE R(1)
        est_pits_end == RDiv(RSub(amount_need, max_add_curr), capacity)
    IN RAdd(est_pits_curr, est_pits_end)

less_pit_stop_consumption(est_pits_late, capacity, amount_curr, laps_left) ==
    IF Truthy(laps_left)
    THEN LET pit_counts == RSub(Ceil(est_pits_late), R(1))
         IN RDiv(RAdd(RMul(pit_counts, capacity), amount_curr), laps_left)
    ELSE R(0)

\* the fuel needed counted from the start line of the current lap
LapTypeNeedFromStartLine(laps_max, lap_number, lap_into, used_est, amount_curr) ==
    LET full_laps_left == RSub(laps_max, lap_number)
    IN [full_laps_left |-> full_laps_left,
        laps_left |-> RSub(full_laps_left, lap_into),
        amount_need |-> RSub(RMul(full_laps_left, used_est), amount_curr)]

\* lines 198-200, the lap-type branch
LapTypeNeed(laps_max, lap_number, lap_into, used_est, amount_curr) ==
    LET full_laps_left == RSub(laps_max, lap_number)
        laps_left == RSub(full_laps_left, lap_into)
    IN [full_laps_left |-> full_laps_left,
        laps_left |-> laps_left,
        amount_need |-> RSub(RMul(laps_left, used_est), amount_curr)]

\* the time-type branch without the 200 ms delay
TimeTypeNeedNoDelay(in, used_est, laps_left) ==
    LET rel_lap_into == RMul(Modf0(RDiv(in.laptime_curr, in.laptime_last)),
                             in.laptime_last)
        full_laps_left == Ceil(RDiv(RAdd(in.time_left, rel_lap_into),
                                    in.laptime_last))
    IN [full_laps_left |-> full_laps_left,
        laps_left |-> RMax(RSub(full_laps_left, in.lap_into), R(0)),
        amount_need |-> RSub(RSub(RMul(full_laps_left, used_est),
                                  in.used_curr), in.amount_curr)]

\* lines 203-208, the time-type branch with laptime_last > 0; laps_left is
\* the value of the tick before
TimeTypeNeed(in, used_est, laps_left) ==
    LET rel_lap_into == RMul(Modf0(RDiv(in.laptime_curr, in.laptime_last)),
                             in.laptime_last)
        full_laps_left == Ceil(RDiv(RAdd(in.time_left, rel_lap_into),
                                    in.laptime_last))
    IN [full_laps_left |-> full_laps_left,
        laps_left |-> IF RLt(<<1, 5>>, in.laptime_curr)
                      THEN RMax(RSub(full_laps_left, in.lap_into), R(0))
                      ELSE laps_left,
        amount_need |-> RSub(RSub(RMul(full_laps_left, used_est),
                                  in.used_curr), in.amount_curr)]

\* the projections of the reset block, and nothing published yet
ProjReset ==
    [raised |-> "none", published |-> FALSE,
     used_est |-> R(0), laps_left |-> R(0), amount_need |-> R(0),
     amount_left |-> R(0), est_runlaps |-> R(0), est_runmins |-> R(0),
     est_empty |-> R(0), est_pits_late |-> R(0), est_pits_early |-> R(0),
     used_est_less |-> R(0), estimatedFuelConsumption |-> R(0)]

\* lines 192-244 of one tick: the projections from the tracked values in
\* and the locals loc of the tick before.  A ZeroDivisionError leaves the
\* tick before anything is published.
Project(in, loc) ==
    LET capacity == RMax(in.tank_capacity, R(1))
        used_est == end_lap_consumption(
                        in.used_last, in.delta_fuel,
                        ~in.pit_lap /\ RLt(R(0), in.lap_number))
        need == IF in.lap_type
                THEN LapTypeNeed(in.laps_max, in.lap_number, in.lap_into,
                                 used_est, in.amount_curr)
                ELSE IF RLt(R(0), in.laptime_last)
                THEN TimeTypeNeed(in, used_est, loc.laps_left)
                ELSE [full_laps_left |-> R(0), laps_left |-> loc.laps_left,
                      amount_need |-> loc.amount_need]
        amount_left == end_stint_fuel(in.amount_curr, in.used_curr, used_est)
        est_runlaps == end_stint_laps(in.amount_curr, used_est)
        est_runmins == RDiv(RMul(est_runlaps, in.laptime_last), R(60))
        est_empty == end_lap_empty_capacity(
                         capacity, RAdd(in.amount_curr, in.used_curr),
                         RAdd(in.used_last, in.delta_fuel))
        est_pits_late == end_stint_pit_counts(
                             need.amount_need, RSub(capacity, amount_left))
        est_pits_early == end_lap_pit_counts(
                              need.amount_need, est_empty,
                              RSub(capacity, amount_left))
        used_est_less == less_pit_stop_consumption(
                             est_pits_late, capacity, in.amount_curr,
                             need.laps_left)
        all == <<used_est, need.laps_left, need.amount_need, amount_left,
                 est_runlaps, est_runmins, est_empty, est_pits_late,
                 est_pits_early, used_est_less>>
        failed == \E i \in 1..Len(all) : Raised(all[i])
    IN [raised |-> IF failed THEN "ZeroDivisionError" ELSE "none",
        published |-> ~failed,
        used_est |-> used_est, laps_left |-> need.laps_left,
        amount_need |-> need.amount_need, amount_left |-> amount_left,
        est_runlaps |-> est_runlaps, est_runmins |-> est_runmins,
        est_empty |-> est_empty, est_pits_late |-> est_pits_late,
        est_pits_early |-> est_pits_early, used_est_less |-> used_est_less,
        \* line 237: minfo.fuel.estimatedFuelConsumption
        estimatedFuelConsumption |->
            IF failed THEN loc.estimatedFuelConsumption
            ELSE RAdd(in.used_last, in.delta_fuel)]

\* the tracked values of a tick
ProjInputs ==
    [lap_type : BOOLEAN,
     laps_max : {R(0), R(10)},
     lap_number : {R(0), R(3)},
     lap_into : {R(0), <<2, 5>>},
     used_last : {R(0), R(2), <<5, 2>>, R(10)},
     delta_fuel : {R(0), <<1, 2>>},
     pit_lap : BOOLEAN,
     amount_curr : {R(0), R(1), R(5), R(12), R(40)},
     used_curr : {R(0), R(1)},
     tank_capacity : {R(0), R(50)},
     laptime_last : {R(0), R(90)},
     laptime_curr : {R(0), <<1, 10>>, <<1, 5>>, R(100)},
     time_left : {R(0), R(600)}]

\* one tick of the projections
ProjectTick ==
    /\ ld.op = "none"
    /\ ld' = [ld EXCEPT !.op = "tick", !.out = Project(ld.in, ld.out)]
    /\ UNCHANGED <<stopped, event, active_module_list, pc, ctl, secVars,
                   fuelVars, sessions>>

\* a session after its reset block or with the laps left of an earlier tick,
\* with the tracked values of its next tick; the tank holds no more than its
\* capacity
InitProject ==
    /\ stopped = [e \in Estimators |-> TRUE]
    /\ event = [e \in Estimators |-> FALSE]
    /\ active_module_list = <<>>
    /\ pc = NoThreads
    /\ ctl = CtlIdle
    /\ sec = SecIdle
    /\ sector_info = <<>>
    /\ lapinfo = LapIdle(FALSE)
    /\ minfo_sectors = MinfoUnset
    /\ fuel = FuelIdleLocals
    /\ fuel_file = NoFile
    /\ fuel_io = IoIdle
    /\ sessions = [e \in Estimators |-> 0]
    /\ \E in \in ProjInputs :
         /\ ~RLt(RMax(in.tank_capacity, R(1)), in.amount_curr)
         /\ \E l \in {R(0), <<33, 5>>} :
              ld = [op |-> "none", in |-> in,
                    out |-> [ProjReset EXCEPT !.laps_left = l]]

NextProject == ProjectTick

SpecProject == InitProject /\ [][NextProject]_vars

\* ============================== load_deltafuel and save_deltafuel alone
MaxRows == 3
MaxCalls == 2

\* the rows of a curve: (distance, used) and (distance, used, laptime)
CurveRows2 == {<<d, u>> : d \in 0..2, u \in 0..1}
CurveRows3 == {<<d, u, 1>> : d \in 0..2, u \in 0..1}

\* the text of a row as csv.writer writes it
CsvRow(r) == [j \in 1..Len(r) |-> CsvField(r[j])]

\* rows a file can hold: rows of numbers, an empty row, a row of one field,
\* rows with a field that is not a number, rows with a quoted field
FileRows ==
    {CsvRow(r) : r \in CurveRows2 \cup CurveRows3}
    \cup {<<>>, <<StrOf(0)>>}
    \cup {<<StrOf(0), <<Txt("x")>>>>, <<StrOf(1), StrOf(1), <<Txt("x")>>>>}
    \cup {<<<<Quo(1)>>, StrOf(0)>>, <<StrOf(2), StrOf(1), <<Quo(1)>>>>}
FileShapes ==
    {NoFile} \cup
    {[exists |-> TRUE, rows |-> rs] :
        rs \in UNION {[1..n -> FileRows] : n \in 0..MaxRows}}

\* the curves a caller saves: the seed, the load default, and curves of
\* one or two samples closed by an end row
SaveCurves ==
    {<<DELTA_ZERO>>, DefaultCurve}
    \cup {<<DELTA_ZERO, e>> : e \in CurveRows3}
    \cup {<<DELTA_ZERO, r, e>> : r \in CurveRows2, e \in CurveRows3}

\* before: the file a load found; saved: the list of the save that came
\* right before a load; out: what the last load returned
FileIdle == [op |-> "none", calls |-> 0, before |-> NoFile, arg |-> <<>>,
             saved |-> <<>>, out |-> LoadFuelDefault(NoFile, FALSE)]

\* one call load_deltafuel(combo), as the reset block makes it
FuelLoadCall ==
    /\ ld.calls < MaxCalls
    /\ LET out == load_deltafuel(fuel_file)
       IN /\ ld' = [op |-> "load", calls |-> ld.calls + 1,
                    before |-> fuel_file, arg |-> <<>>,
                    saved |-> IF ld.op = "save" THEN ld.arg ELSE <<>>,
                    out |-> out]
          /\ fuel_file' = out.file
    /\ UNCHANGED <<stopped, event, active_module_list, pc, ctl, secVars,
                   fuel, fuel_io, sessions>>

\* one call save_deltafuel(combo, listname)
FuelSaveCall ==
    /\ ld.calls < MaxCalls
    /\ \E listname \in SaveCurves :
         /\ ld' = [op |-> "save", calls |-> ld.calls + 1, before |-> NoFile,
                   arg |-> listname, saved |-> <<>>, out |-> ld.out]
         /\ fuel_file' = save_deltafuel(fuel_file, listname)
    /\ UNCHANGED <<stopped, event, active_module_list, pc, ctl, secVars,
                   fuel, fuel_io, sessions>>

InitFuelFile ==
    /\ stopped = [e \in Estimators |-> TRUE]
    /\ event = [e \in Estimators |-> FALSE]
    /\ active_module_list = <<>>
    /\ pc = NoThreads
    /\ ctl = CtlIdle
    /\ sec = SecIdle
    /\ sector_info = <<>>
    /\ lapinfo = LapIdle(FALSE)
    /\ minfo_sectors = MinfoUnset
    /\ fuel = FuelIdleLocals
    /\ fuel_file \in FileShapes
    /\ fuel_io = IoIdle
    /\ sessions = [e \in Estimators |-> 0]
    /\ ld = FileIdle

NextFuelFile ==
    \/ FuelLoadCall
    \/ FuelSaveCall

SpecFuelFile == InitFuelFile /\ [][NextFuelFile]_vars


\* --------------------------------- lifecycle, statement by statement
\* start() and stop() are called by one thread (the application's main
\* thread); the workers run concurrently.  The loop body of a worker changes
\* nothing of stopped, event and active_module_list.
dataVars == <<secVars, fuelVars, sessions, ld>>

\* the wait of `while not self.event.wait(update_interval)` ignoring the event
WaitNever(e) == FALSE

\* the value self.event.wait(update_interval) returns
WaitResult(e) == event[e]

\* stop(): self.event.set()
CallStop(e) ==
    /\ ctl.at = "idle"
    /\ event' = [event EXCEPT ![e] = TRUE]
    /\ ctl' = [at |-> "idle", e |-> e, last |-> "stop"]
    /\ UNCHANGED <<stopped, pc, active_module_list, dataVars>>

\* start(): `if self.stopped:`
StartCheck(e) ==
    /\ ctl.at = "idle"
    /\ ctl' = IF StartGuard(e) THEN [at |-> "set", e |-> e, last |-> ctl.last]
              ELSE [at |-> "idle", e |-> e, last |-> "noop"]
    /\ UNCHANGED <<stopped, event, pc, active_module_list, dataVars>>

\* start(): self.stopped = False
StartSet(e) ==
    /\ ctl.at = "set" /\ ctl.e = e
    /\ stopped' = [stopped EXCEPT ![e] = FALSE]
    /\ ctl' = [ctl EXCEPT !.at = "clear"]
    /\ UNCHANGED <<event, pc, active_module_list, dataVars>>

\* start(): self.event.clear()
StartClear(e) ==
    /\ ctl.at = "clear" /\ ctl.e = e
    /\ event' = [event EXCEPT ![e] = FALSE]
    /\ ctl' = [ctl EXCEPT !.at = "thread"]
    /\ UNCHANGED <<stopped, pc, active_module_list, dataVars>>

\* start(): _thread.start()
StartThread(e) ==
    /\ ctl.at = "thread" /\ ctl.e = e
    /\ \E w \in Threads :
         /\ pc[e][w] = "none"
         /\ \A v \in Threads : v < w => pc[e][v] # "none"
         /\ pc' = [pc EXCEPT ![e][w] = "loop"]
    /\ ctl' = [ctl EXCEPT !.at = "append"]
    /\ UNCHANGED <<stopped, event, active_module_list, dataVars>>

\* start() without its append
StartAppendNothing(e) ==
    /\ ctl.at = "append" /\ ctl.e = e
    /\ ctl' = [at |-> "idle", e |-> e, last |-> "started"]
    /\ UNCHANGED <<stopped, event, pc, active_module_list, dataVars>>

\* start(): self.cfg.active_module_list.append(self)
StartAppend(e) ==
    /\ ctl.at = "append" /\ ctl.e = e
    /\ active_module_list' = Append(active_module_list, e)
    /\ ctl' = [at |-> "idle", e |-> e, last |-> "started"]
    /\ UNCHANGED <<stopped, event, pc, dataVars>>

\* worker: the loop condition is evaluated
WorkerWait(e, w) ==
    /\ pc[e][w] = "loop"
    /\ pc' = [pc EXCEPT ![e][w] = IF WaitResult(e) THEN "remove" ELSE "body"]
    /\ UNCHANGED <<stopped, event, active_module_list, ctl, dataVars>>

\* worker: one loop body
WorkerBody(e, w) ==
    /\ pc[e][w] = "body"
    /\ pc' = [pc EXCEPT ![e][w] = "loop"]
    /\ UNCHANGED <<stopped, event, active_module_list, ctl, dataVars>>

InList(l, x) == \E i \in 1..Len(l) : l[i] = x

\* worker: self.cfg.active_module_list.remove(self); ValueError when absent
WorkerRemove(e, w) ==
    /\ pc[e][w] = "remove"
    /\ IF InList(active_module_list, e)
       THEN /\ active_module_list' = Remove(active_module_list, e)
            /\ pc' = [pc EXCEPT ![e][w] = "close"]
       ELSE /\ pc' = [pc EXCEPT ![e][w] = "dead"]
            /\ UNCHANGED active_module_list
    /\ UNCHANGED <<stopped, event, ctl, dataVars>>

\* worker: self.stopped = True, and the thread ends
WorkerClose(e, w) ==
    /\ pc[e][w] = "close"
    /\ stopped' = [stopped EXCEPT ![e] = TRUE]
    /\ pc' = [pc EXCEPT ![e][w] = "none"]
    /\ UNCHANGED <<event, active_module_list, ctl, dataVars>>

WorkerStep(e, w) ==
    \/ WorkerWait(e, w)
    \/ WorkerBody(e, w)
    \/ WorkerRemove(e, w)
    \/ WorkerClose(e, w)

InitLife ==
    /\ stopped = [e \in Estimators |-> TRUE]
    /\ event = [e \in Estimators |-> FALSE]
    /\ active_module_list = <<>>
    /\ pc = NoThreads
    /\ ctl = CtlIdle
    /\ sec = SecIdle
    /\ sector_info = <<>>
    /\ lapinfo = LapIdle(FALSE)
    /\ minfo_sectors = MinfoUnset
    /\ fuel = FuelIdleLocals
    /\ fuel_file = NoFile
    /\ fuel_io = IoIdle
    /\ sessions = [e \in Estimators |-> 0]
    /\ ld = LdIdle

NextLife ==
    \E e \in Estimators :
        \/ CallStop(e)
        \/ StartCheck(e)
        \/ StartSet(e)
        \/ StartClear(e)
        \/ StartThread(e)
        \/ StartAppend(e)
        \/ \E w \in Threads : WorkerStep(e, w)

SpecLife == InitLife /\ [][NextLife]_vars

\* every worker thread keeps being scheduled, and a wait with a timeout returns
SpecLifeFair ==
    SpecLife /\ \A e \in Estimators : \A w \in Threads : WF_vars(WorkerStep(e, w))

\* ===================================================== sectors: claims

\* C2: within an active session, for each sector i the theoretical best
\* best_s_tb[i] after a tick is less than or equal to its value after the
\* previous tick, whatever the telemetry readings are.
C2_TheoreticalBestNonIncreasing ==
    [][(sec.reset /\ sec'.reset) =>
          \A i \in 1..3 : sec'.best_s_tb[i] <= sec.best_s_tb[i]]_vars

\* a sector 1 time below a valid stored best has been recorded: the stored
\* best was lowered
C2_Witness ==
    /\ sec.reset
    /\ sec.best_s_tb[1] > 0
    /\ sec.delta_s_tb[1] < 0
    /\ sec.best_s_tb[1] = sec.prev_s[1]

\* C3: from cold-start defaults, every theoretical-best slot is either the
\* unset sentinel 99999 or a valid sector time (> 0 and < 99999).
C3_BestSlotsUnsetOrValid ==
    \A i \in 1..3 :
        \/ sec.best_s_tb[i] = MAGIC_NUM
        \/ sec.best_s_tb[i] > 0 /\ sec.best_s_tb[i] < MAGIC_NUM

\* C4: whenever the personal-best sectors are replaced by a faster lap, the
\* new best_s_pb is the three splits of that one lap: sector 1 and sector 2
\* were both driven in the lap just completed.
C4_PersonalBestOfOneLap ==
    [][(sec.reset /\ sec'.reset /\ sec'.laptime_best < sec.laptime_best) =>
          /\ sec'.best_s_pb = sec'.prev_s
          /\ lapinfo'.split_age = <<1, 1>>]_vars

\* C7: when the worker of an estimator leaves its loop during an active
\* session with unsaved data (sectors: valid personal-best sectors; fuel: a
\* confirmed curve whose save is pending), the data is in the store once
\* the worker has exited.
C7_FlushBeforeExit ==
    [][/\ (pc["sectors"][1] = "loop" /\ pc'["sectors"][1] = "none"
             /\ sec.reset /\ SaveGate(sec.session_id, sec.best_s_pb)) =>
          sector_info' = save_sector_data(sector_info, sec.combo_id,
              sec.session_id, sec.best_s_pb, sec.laptime_best, sec.best_s_tb)
       /\ (pc["fuel"][1] = "loop" /\ pc'["fuel"][1] = "none"
             /\ fuel.reset /\ fuel.delayed_save) =>
          fuel_file' = save_deltafuel(fuel_file, fuel.delta_list_last)]_vars

\* ======================================================= load: claims

\* what a call must return when it accepts the record described by sh
LoadedFrom(sh) ==
    [raised |-> "none", accepted |-> TRUE, laptime_best |-> sh.pay[1],
     best_s_tb |-> sh.pay[2], best_s_pb |-> sh.pay[3]]

\* C5 (as stated): a complete stored record is accepted if and only if the
\* combination ids are equal and each stored session field (type, elapsed
\* time, total laps) is <= the current one; accepted, the stored values are
\* returned, otherwise the sentinel defaults.
C5_AcceptIffAllLe ==
    (ld.done /\ Complete(ld.shape)) =>
        ld.out = IF /\ ld.combo_id = ld.shape.combo
                    /\ \A i \in 1..3 : ld.shape.sess[i] <= ld.session_id[i]
                 THEN LoadedFrom(ld.shape)
                 ELSE LoadDefault("none")

\* C5 (amended): a complete stored record is accepted if and only if the
\* combination ids are equal, the stored session type EQUALS the current
\* one, and the stored elapsed time and total laps are <= the current ones;
\* accepted, the stored best laptime, theoretical-best and personal-best
\* arrays are returned, otherwise the sentinel defaults.
C5_AcceptIffSameTypeAndLe ==
    (ld.done /\ Complete(ld.shape)) =>
        ld.out = IF /\ ld.combo_id = ld.shape.combo
                    /\ ld.shape.sess[1] = ld.session_id[1]
                    /\ ld.shape.sess[2] <= ld.session_id[2]
                    /\ ld.shape.sess[3] <= ld.session_id[3]
                 THEN LoadedFrom(ld.shape)
                 ELSE LoadDefault("none")

\* a complete record of an earlier point of the same session was accepted,
\* and its second payload returned
C5_Witness ==
    /\ ld.done /\ Complete(ld.shape) /\ ld.out.accepted
    /\ ld.shape.sess[2] < ld.session_id[2]
    /\ ld.out.best_s_pb = <<2, 1, 1>>

\* C6: for any stored string, combination id and session id the load raises
\* no exception, and a short or malformed record yields the sentinel
\* defaults.
C6_LoadNeverRaises ==
    ld.done =>
        /\ ld.out.raised = "none"
        /\ ~Complete(ld.shape) => ld.out = LoadDefault("none")

\* ================================================== lifecycle: claims

Count(l, x) == Cardinality({i \in 1..Len(l) : l[i] = x})

\* C8: start() on an estimator whose worker is running is a no-op: for any
\* interleaving of start(), stop() and worker steps, at most one worker of
\* an estimator is alive and the estimator is at most once in
\* active_module_list.
C8_AtMostOneWorker ==
    \A e \in Estimators :
        /\ Cardinality({w \in Threads : pc[e][w] # "none"}) <= 1
        /\ Count(active_module_list, e) <= 1

\* start() was called on an estimator whose worker is in its loop, and
\* returned without doing anything
C8_Witness ==
    \E e \in Estimators :
        /\ ctl = [at |-> "idle", e |-> e, last |-> "noop"]
        /\ \E w \in Threads : pc[e][w] \in {"loop", "body"}
        /\ ~stopped[e]
        /\ Count(active_module_list, e) = 1

C1_UsedNeverNegative ==
    /\ [](fuel.used_curr >= 0)
    /\ [](fuel.reset =>
            \A amount_curr \in 0..MaxFuel :
                amount_curr > fuel.amount_last =>
                    /\ Consume(fuel, amount_curr).used_curr = fuel.used_curr
                    /\ Consume(fuel, amount_curr).amount_start = amount_curr)
    /\ [](fuel.reset /\ ~fuel_io.decreased => fuel.used_curr = 0)
    /\ [][(fuel.reset /\ fuel'.reset /\ fuel'.amount_last > fuel.amount_last)
           => /\ fuel'.amount_start = fuel'.amount_last
              /\ \/ fuel'.used_curr = fuel.used_curr
                 \/ fuel'.used_curr = 0 /\ fuel'.used_last_raw = fuel.used_curr]_vars

\* a refuel after fuel was used in the lap, with the use kept
C1_Witness ==
    /\ fuel.reset
    /\ fuel.used_curr > 0
    /\ fuel.amount_start = fuel.amount_last
    /\ fuel.amount_start > 0

\* a step that is one iteration of the loop of the fuel worker
FuelTick ==
    /\ pc["fuel"][1] = "loop" /\ pc'["fuel"][1] = "loop"
    /\ event' = event

\* C10: the tick that confirms the pending curve writes no file; no tick of
\* an active session after its first writes one; the Active-to-Idle tick
\* writes the reference curve if a curve was confirmed in the session and
\* writes nothing otherwise; idle ticks after it write nothing.
C10_CurveSavedAtIdleOnly ==
    [][FuelTick =>
       /\ fuel_io'.confirmed_now => ~fuel_io'.wrote /\ fuel_file' = fuel_file
       /\ fuel.reset /\ fuel'.reset => ~fuel_io'.wrote /\ fuel_file' = fuel_file
       /\ fuel.reset /\ ~fuel'.reset
            => IF fuel_io.confirmed
               THEN /\ fuel_io'.wrote
                    /\ fuel_file' = [exists |-> TRUE,
                                     rows |-> CsvWrite(fuel.delta_list_last)]
               ELSE ~fuel_io'.wrote /\ fuel_file' = fuel_file
       /\ ~fuel.reset /\ ~fuel'.reset
            => ~fuel_io'.wrote /\ fuel_file' = fuel_file]_vars

\* idle after a session that confirmed a curve other than the stored one:
\* the file holds the confirmed curve
C10_Witness ==
    /\ ~fuel.reset
    /\ fuel.update_interval = "idle"
    /\ fuel_io.confirmed
    /\ fuel_io.wrote
    /\ fuel_file = [exists |-> TRUE, rows |-> CsvWrite(fuel.delta_list_last)]
    /\ fuel_file \notin StoredFiles

\* ======================================================= fuel: claims

\* C11: after the first tick of a session the reference curve, used_last
\* and laptime_last change only on a tick that confirms (a curve pending,
\* 0.2 s < current laptime <= 3 s, last laptime > 0); on that tick the
\* reference curve becomes the pending curve -- the one pending before the
\* tick, or the curve of the lap that the same tick closed -- and
\* validation ends.
C11_ReferenceChangesOnlyOnConfirmation ==
    [][(FuelTick /\ fuel.reset /\ fuel'.reset) =>
         /\ (\/ fuel'.delta_list_last # fuel.delta_list_last
             \/ fuel'.used_last # fuel.used_last
             \/ fuel'.laptime_last # fuel.laptime_last)
              => fuel_io'.confirmed_now
         /\ fuel_io'.confirmed_now =>
              /\ ~fuel'.validating
              /\ fuel'.laptime_last > 0
              /\ fuel_io'.laps = fuel_io.laps =>
                    fuel.validating /\ fuel'.delta_list_last = fuel.delta_list_temp
              /\ \/ fuel'.delta_list_last = fuel.delta_list_temp
                 \/ SubSeq(fuel'.delta_list_last, 1,
                           Len(fuel'.delta_list_last) - 1) = fuel.delta_list_curr]_vars

\* a tick has confirmed a pending curve as the reference curve
C11_Witness ==
    /\ fuel.reset
    /\ fuel_io.confirmed_now
    /\ Len(fuel.delta_list_last) > 2
    /\ fuel.laptime_last > 0
    /\ ~fuel.validating

\* C12: a pending curve that was not confirmed in the lap that follows it is
\* never adopted: the curve a tick adopts has seen no lap boundary since it
\* was closed.
C12_ExpiredCurveNeverAdopted ==
    fuel_io.confirmed_now => fuel_io.adopted_age = 0

\* C13 (as stated): a tick of a session detects a lap boundary exactly when
\* the lap start time read is LESS than the one read before and that one is
\* not -1; the first tick of a session detects none.
C13_BoundaryOnDecrease ==
    [][FuelTick /\ fuel'.reset =>
         IF ~fuel.reset THEN fuel_io'.laps = 0
         ELSE (fuel_io'.laps = fuel_io.laps + 1)
              <=> (fuel'.last_lap_stime < fuel.last_lap_stime
                   /\ fuel.last_lap_stime # -1)]_vars

\* C13 (amended): a tick of a session detects a lap boundary exactly when
\* the lap start time read is GREATER than the one read before and that one
\* is not -1; the first tick of a session detects none.  A boundary resets
\* the curve and the use of the current lap.
C13_BoundaryOnIncrease ==
    [][FuelTick /\ fuel'.reset =>
         IF ~fuel.reset THEN fuel_io'.laps = 0
         ELSE /\ (fuel_io'.laps = fuel_io.laps + 1)
                 <=> (fuel'.last_lap_stime > fuel.last_lap_stime
                      /\ fuel.last_lap_stime # -1)
              /\ fuel_io'.laps \in {fuel_io.laps, fuel_io.laps + 1}
              /\ fuel_io'.laps = fuel_io.laps + 1 =>
                    /\ fuel'.used_curr = 0
                    /\ fuel'.used_last_raw >= fuel.used_curr
                    /\ Len(fuel'.delta_list_curr) <= 2]_vars

\* a lap boundary has been detected, and a later reading was lower without
\* one being detected
C13_Witness ==
    /\ fuel.reset
    /\ fuel_io.laps = 1
    /\ fuel.last_lap_stime = 0

\* a curve starts at (0, 0), its distances strictly increase and its fuel
\* used never decreases
CurveOrdered(l) ==
    /\ Len(l) > 0
    /\ l[1][1] = 0 /\ l[1][2] = 0
    /\ \A i \in 1..(Len(l) - 1) : l[i][1] < l[i+1][1] /\ l[i][2] <= l[i+1][2]

\* C14: in every state of an active session the curve of the current lap,
\* the pending curve and a reference curve adopted in the session are
\* ordered.
C14_CurvesOrdered ==
    fuel.reset =>
        /\ CurveOrdered(fuel.delta_list_curr)
        /\ CurveOrdered(fuel.delta_list_temp)
        /\ fuel_io.confirmed => CurveOrdered(fuel.delta_list_last)

\* C15: on every tick, whatever the tracked values, no projection divides
\* by zero: the tick completes and publishes.
C15_ProjectionsNeverDivideByZero ==
    ld.op = "tick" => ld.out.raised = "none" /\ ld.out.published

\* a file that is missing, empty, holds a field that is not a number, or
\* ends in a row of fewer than 3 fields
FileUnreadable(file) ==
    \/ ~file.exists
    \/ Len(file.rows) = 0
    \/ \E i \in 1..Len(file.rows) : \E j \in 1..Len(file.rows[i]) :
          ~IsFloat(file.rows[i][j])
    \/ Len(file.rows[Len(file.rows)]) < 3

\* C16: load_deltafuel raises nothing to its caller, and returns the default
\* ([(99999,0,0)], 0, 0) when the file is missing, empty, holds a field
\* that is not a number, or ends in a row of fewer than 3 fields.
C16_LoadDefaultOnUnreadable ==
    ld.op = "load" =>
        /\ ld.out.raised = "none"
        /\ FileUnreadable(ld.before) =>
              /\ Len(ld.out.lastlist) = 1
              /\ Len(ld.out.lastlist[1]) = 3
              /\ \A j \in 1..3 : ~IsStr(ld.out.lastlist[1][j])
              /\ ld.out.lastlist = DefaultCurve
              /\ ld.out.used_last = 0
              /\ ld.out.laptime_last = 0

\* C17 (as stated): save_deltafuel writes the file exactly when the list has
\* more than one point, and a session that confirms no lap -- it touches
\* the file only through the load_deltafuel of its reset block -- leaves
\* the stored file as it was.
C17_NoLapNeverOverwrites ==
    [][/\ ld'.op = "save" =>
            IF Len(ld'.arg) > 1
            THEN fuel_file'.exists /\ CsvRead(fuel_file'.rows) = ld'.arg
            ELSE fuel_file' = fuel_file
       /\ ld'.op = "load" => fuel_file' = fuel_file]_vars

\* C17 (amended): save_deltafuel writes the file exactly when the list has
\* more than one point; the load_deltafuel of a session leaves the stored
\* file as it was unless the stored curve is readable and fails the
\* validator, and then it writes the rows the validator kept, if more than
\* one is left.
C17_OverwrittenOnlyByCorrection ==
    [][/\ ld'.op = "save" =>
            IF Len(ld'.arg) > 1
            THEN fuel_file'.exists /\ CsvRead(fuel_file'.rows) = ld'.arg
            ELSE fuel_file' = fuel_file
       /\ ld'.op = "load" =>
            \/ fuel_file' = fuel_file
            \/ /\ fuel_file.exists
               /\ \A i \in 1..Len(fuel_file.rows) :
                     \A j \in 1..Len(fuel_file.rows[i]) :
                        \/ IsFloat(fuel_file.rows[i][j])
                        \/ IsQuoted(fuel_file.rows[i][j])
               /\ Len(fuel_file.rows[Len(fuel_file.rows)]) >= 3
               /\ ~delta_list(CsvRead(fuel_file.rows))
               /\ fuel_file'.exists
               /\ Len(fuel_file'.rows) > 1
               /\ Len(fuel_file'.rows) < Len(fuel_file.rows)
               /\ delta_list(CsvRead(fuel_file'.rows))]_vars

\* a load has rewritten a stored curve, and the save of a single-point
\* list that followed has left the file as the load wrote it
C17_Witness ==
    /\ ld.op = "save" /\ Len(ld.arg) = 1
    /\ ld.out.wrote
    /\ fuel_file = ld.out.file
    /\ Len(fuel_file.rows) > 1

\* a session of the worker writes the file only in its first tick (the
\* load) or after it has confirmed a lap
FileWrittenByLoadOrAfterConfirmation ==
    [][fuel_file' # fuel_file =>
          \/ ~fuel.reset /\ fuel'.reset
          \/ fuel_io.confirmed]_vars

\* a list that passes the validator, has more than one point and ends in a
\* closing row
WellFormedClosed(l) ==
    /\ Len(l) > 1
    /\ delta_list(l)
    /\ Len(l[Len(l)]) = 3

\* C18: save_deltafuel of a well-formed closed curve followed by
\* load_deltafuel returns a curve equal to it row by row and value by
\* value, with used_last and laptime_last the second and third value of
\* its closing row.
C18_SaveLoadRoundTrip ==
    (ld.op = "load" /\ WellFormedClosed(ld.saved)) =>
        /\ ld.out.raised = "none"
        /\ Len(ld.out.lastlist) = Len(ld.saved)
        /\ \A i \in 1..Len(ld.saved) :
              /\ Len(ld.out.lastlist[i]) = Len(ld.saved[i])
              /\ \A j \in 1..Len(ld.saved[i]) :
                    ld.out.lastlist[i][j] = ld.saved[i][j]
        /\ ld.out.used_last = ld.saved[Len(ld.saved)][2]
        /\ ld.out.laptime_last = ld.saved[Len(ld.saved)][3]

\* a curve of three rows has been saved and loaded back
C18_Witness ==
    /\ ld.op = "load"
    /\ WellFormedClosed(ld.saved)
    /\ Len(ld.saved) = 3
    /\ ld.out.lastlist = ld.saved
    /\ ld.out.used_last = 1

\* C19: in a lap-type session every tick has
\* laps_left = (laps_max - lap_number) - lap_into and
\* amount_need = laps_left * used_est - amount_curr; for laps_max 10,
\* lap_number 3, lap_into 0.4, used_est 2.5 and amount_curr 12 the fuel
\* needed is 4.5.
C19_LapTypeFuelNeeded ==
    (ld.op = "tick" /\ ld.in.lap_type) =>
        LET ll == ld.out.laps_left
            an == ld.out.amount_need
            ue == ld.out.used_est
            ac == ld.in.amount_curr
            into == ld.in.lap_into
            full == ld.in.laps_max[1] - ld.in.lap_number[1]
        IN /\ ll[2] > 0 /\ an[2] > 0
           /\ ll[1] * into[2] = (full * into[2] - into[1]) * ll[2]
           /\ an[1] * (ll[2] * ue[2] * ac[2])
                = (ll[1] * ue[1] * ac[2] - ac[1] * ll[2] * ue[2]) * an[2]
           /\ (/\ full = 7 /\ into = <<2, 5>> /\ ue = <<5, 2>> /\ ac = R(12))
                 => an = <<9, 2>>

\* the tick of the example: 10 laps, 3 driven, 0.4 into the lap, 2.5 a lap,
\* 12 in the tank
C19_Witness ==
    /\ ld.op = "tick" /\ ld.in.lap_type
    /\ ld.in.laps_max = R(10) /\ ld.in.lap_number = R(3)
    /\ ld.in.lap_into = <<2, 5>>
    /\ ld.out.used_est = <<5, 2>>
    /\ ld.in.amount_curr = R(12)
    /\ ld.out.amount_need = <<9, 2>>

\* C20: end_stint_laps(amount_curr, used_est) is amount_curr / used_est when
\* used_est is not 0 and 0 when it is; 40 and 10 give 4, 5 and 0 give 0.
C20_RunLaps ==
    ld.op = "tick" =>
        LET rl == ld.out.est_runlaps
            ue == ld.out.used_est
            ac == ld.in.amount_curr
        IN /\ rl[2] > 0
           /\ ue[1] # 0 => rl[1] * ue[1] * ac[2] = ac[1] * ue[2] * rl[2]
           /\ ue[1] = 0 => rl = R(0)
           /\ (ac = R(40) /\ ue = R(10)) => rl = R(4)
           /\ (ac = R(5) /\ ue = R(0)) => rl = R(0)

\* a tick with 40 in the tank and 10 a lap
C20_Witness ==
    /\ ld.op = "tick"
    /\ ld.in.amount_curr = R(40)
    /\ ld.out.used_est = R(10)
    /\ ld.out.est_runlaps = R(4)

\* a tick with 5 in the tank and no use known
C20_WitnessZero ==
    /\ ld.op = "tick"
    /\ ld.in.amount_curr = R(5)
    /\ ld.out.used_est = R(0)
    /\ ld.out.est_runlaps = R(0)

\* the estimated consumption of a tick as the spec states it: the use of
\* the last lap plus the delta when the lap number is above 0 and the pits
\* were not seen in the current lap, the use of the last lap alone otherwise
EstimatedConsumption(in) ==
    IF RLt(R(0), in.lap_number) /\ ~in.pit_lap
    THEN RAdd(in.used_last, in.delta_fuel)
    ELSE in.used_last

\* C29: on every tick the estimated consumption used for the projections is
\* EstimatedConsumption, and the published estimated fuel consumption is
\* the same value.
C29_EstimatedConsumptionPublished ==
    ld.op = "tick" =>
        /\ ld.out.used_est = EstimatedConsumption(ld.in)
        /\ ld.out.published =>
              ld.out.estimatedFuelConsumption = EstimatedConsumption(ld.in)

\* C30: on every tick that publishes, the estimated empty capacity is
\* tank capacity - (current amount + used this lap) + EstimatedConsumption.
C30_EmptyCapacity ==
    (ld.op = "tick" /\ ld.out.published) =>
        ld.out.est_empty =
            RAdd(RSub(RMax(ld.in.tank_capacity, R(1)),
                      RAdd(ld.in.amount_curr, ld.in.used_curr)),
                 EstimatedConsumption(ld.in))

\* ============================================ sectors: records and deltas
\* a valid sector time, as the specification writes it
ValidTime(x) == x > 0 /\ x < 99999
ValidTimes(l) == \A i \in 1..3 : ValidTime(l[i])

\* the slot (1..3) of the sector completed when index idx is accepted
SlotOf(idx) == IF idx = 0 THEN 3 ELSE idx

\* C24: every sector record written to the settings store has a non-empty,
\* non-zero session identity and only valid sector times in its three
\* personal-best and three theoretical-best fields; when the save gate fails
\* the stored record is left unchanged.
C24_WrittenRecordsValid ==
    [][/\ sector_info' # sector_info =>
             /\ Len(sec.session_id) > 0
             /\ sec.session_id # <<0, 0, 0>>
             /\ ValidTimes(sec.best_s_pb)
             /\ ValidTimes(sec.best_s_tb)
       /\ (sec.reset /\ ~sec'.reset /\ ~ValidTimes(sec.best_s_pb)) =>
             sector_info' = sector_info]_vars

\* C26: the deltas against the personal best are cumulative within a lap;
\* each is written only when its personal-best slot is valid; with all three
\* slots valid, delta_pb[2] after a fully observed lap is the lap's total
\* minus the personal-best total.
C26_DeltaPBCumulative ==
    [][(sec.reset /\ sec'.reset
          /\ sec'.last_sector_idx # sec.last_sector_idx) =>
          LET i == SlotOf(sec'.last_sector_idx)
              new == sec'.prev_s[i]
              pb == sec.best_s_pb
              chained == IF i = 1 THEN 0 ELSE sec.delta_s_pb[i - 1]
          IN /\ \A j \in 1..3 : j # i =>
                    sec'.delta_s_pb[j] = sec.delta_s_pb[j]
             /\ sec'.delta_s_pb[i] =
                    IF ValidTime(pb[i]) THEN new - pb[i] + chained
                    ELSE sec.delta_s_pb[i]
             /\ minfo_sectors'.deltaSectorBestPB = sec'.delta_s_pb
             /\ (i = 3 /\ ValidTimes(pb) /\ lapinfo'.split_age = <<1, 1>>) =>
                    sec'.delta_s_pb[3] =
                        (sec'.prev_s[1] + sec'.prev_s[2] + sec'.prev_s[3])
                        - (pb[1] + pb[2] + pb[3])]_vars

\* a lap seen whole against a valid personal best, slower in one sector and
\* not in total
C26_Witness ==
    /\ sec.reset
    /\ sec.last_sector_idx = 0
    /\ lapinfo.split_age = <<1, 1>>
    /\ ValidTimes(sec.best_s_pb)
    /\ sec.delta_s_pb[1] # 0
    /\ sec.delta_s_pb[2] # sec.prev_s[2] - sec.best_s_pb[2]
    /\ sec.delta_s_pb[3] =
           (sec.prev_s[1] + sec.prev_s[2] + sec.prev_s[3])
           - (sec.best_s_pb[1] + sec.best_s_pb[2] + sec.best_s_pb[3])

\* C27: after an accepted sector update the published no-delta flag is true
\* exactly when the theoretical-best slot of the completed sector was not
\* valid before the update, and delta_tb of that sector is written exactly
\* when the flag is false; the flag is true from session start until the
\* first accepted update.
C27_NoDeltaFlag ==
    [][(sec'.reset /\ pc'["sectors"][1] = "loop") =>
          LET first == ~sec.reset
              tb == IF first
                    THEN load_sector_data(sector_info, sec'.combo_id,
                                          sec'.session_id).best_s_tb
                    ELSE sec.best_s_tb
              delta == IF first THEN <<0, 0, 0>> ELSE sec.delta_s_tb
              idx == IF first THEN -1 ELSE sec.last_sector_idx
              i == SlotOf(sec'.last_sector_idx)
          IN /\ minfo_sectors'.noDeltaSector = sec'.no_delta_s
             /\ sec'.last_sector_idx = -1 => sec'.no_delta_s
             /\ sec'.last_sector_idx # idx =>
                   /\ sec'.no_delta_s = ~ValidTime(tb[i])
                   /\ \A j \in 1..3 : j # i =>
                          sec'.delta_s_tb[j] = delta[j]
                   /\ sec'.delta_s_tb[i] =
                          IF sec'.no_delta_s THEN delta[i]
                          ELSE sec'.prev_s[i] - tb[i]]_vars

\* both cases have happened: a sector completed with a stored best gave a
\* delta and cleared the flag; a later one without a stored best set it
C27_Witness ==
    /\ sec.reset
    /\ minfo_sectors.noDeltaSector
    /\ sec.last_sector_idx = 2
    /\ sec.delta_s_tb[1] # 0
    /\ sec.delta_s_tb[2] = 0
    /\ sec.best_s_tb[2] = sec.prev_s[2]

\* C28: the published sector index is 0, 1 or 2 whatever index is reported;
\* it is the last accepted index, and 0 before any update of the session.
C28_SectorIndexClamped ==
    /\ minfo_sectors.sectorIndex \in 0..2
    /\ (sec.reset /\ pc["sectors"][1] = "loop") =>
          /\ sec.last_sector_idx \in -1..2
          /\ minfo_sectors.sectorIndex =
                 IF sec.last_sector_idx = -1 THEN 0 ELSE sec.last_sector_idx

\* a session has started after one that ended in sector 2, and no sector of
\* the new one is accepted yet
C28_Witness ==
    /\ sec.reset
    /\ pc["sectors"][1] = "loop"
    /\ sessions["sectors"] = 2
    /\ sec.last_sector_idx = -1
    /\ minfo_sectors.published
    /\ minfo_sectors.sectorIndex = 0
    /\ ValidTimes(sec.best_s_pb)

\* ====================================== sectors: the splits of one session
\* The ticks of one session from cold-start defaults, with the readings of
\* every accepted update kept in ld.hist.  Times are in tenths of a second:
\* 30.2, 61.0 and 92.5 seconds, and 0 for "not available".
MaxSplitTicks == 4

SplitTimes == {0, 302, 610, 925}

SplitInputs ==
    {[sector_idx |-> 0, laptime_valid |-> lv, curr_sector1 |-> 0,
      curr_sector2 |-> 0, last_sector2 |-> l2] :
         lv \in SplitTimes, l2 \in SplitTimes}
    \cup {[sector_idx |-> 1, laptime_valid |-> 0, curr_sector1 |-> c1,
           curr_sector2 |-> 0, last_sector2 |-> 0] : c1 \in SplitTimes}
    \cup {[sector_idx |-> 2, laptime_valid |-> 0, curr_sector1 |-> c1,
           curr_sector2 |-> c2, last_sector2 |-> 0] :
              c1 \in SplitTimes, c2 \in SplitTimes}

\* one tick of the session: "Update previous & best sector time" and
\* "Output sectors data"
SplitTick ==
    /\ sec.reset
    /\ ld.n < MaxSplitTicks
    /\ \E in \in SplitInputs :
         /\ sec' = SectorsUpdate(sec, in)
         /\ minfo_sectors' = Publish(sec')
         /\ ld' = [n |-> ld.n + 1,
                   hist |-> IF Accepted(sec, in) # 0
                            THEN Append(ld.hist, in) ELSE ld.hist]
    /\ UNCHANGED <<stopped, event, active_module_list, pc, ctl, sector_info,
                   lapinfo, fuelVars, sessions>>

\* a session after its reset block, nothing stored
InitSplits ==
    /\ stopped = [e \in Estimators |-> TRUE]
    /\ event = [e \in Estimators |-> FALSE]
    /\ active_module_list = <<>>
    /\ pc = NoThreads
    /\ ctl = CtlIdle
    /\ \E id \in Combos \X SessionIds :
         sec = SecReset(id[1], id[2], LoadDefault("none"))
    /\ sector_info = <<>>
    /\ lapinfo = LapIdle(FALSE)
    /\ minfo_sectors = MinfoUnset
    /\ fuel = FuelIdleLocals
    /\ fuel_file = NoFile
    /\ fuel_io = IoIdle
    /\ sessions = [e \in Estimators |-> 0]
    /\ ld = [n |-> 0, hist |-> <<>>]

NextSplits == SplitTick

SpecSplits == InitSplits /\ [][NextSplits]_vars

\* the last three accepted updates are sectors 1, 2 and 3 of one lap: the
\* sector 2 tick reads the sector 1 split the sector 1 tick read, and the
\* sector 3 tick reads the sector 2 split as last_sector2
OneLap(h) ==
    LET n == Len(h)
    IN /\ n >= 3
       /\ h[n - 2].sector_idx = 1
       /\ h[n - 1].sector_idx = 2
       /\ h[n].sector_idx = 0
       /\ h[n - 1].curr_sector1 = h[n - 2].curr_sector1
       /\ h[n].last_sector2 = h[n - 1].curr_sector2

\* C21: after the sector index went 1, 2, 0 within one lap with every update
\* accepted, the published previous-lap array is [sector-1 split, sector-2
\* split minus sector-1 split, last laptime minus last sector-2 split] of
\* that lap (30.2, 61.0 and 92.5 give [30.2, 30.8, 31.5]); a slot keeps its
\* value until the same sector is completed again.
C21_PreviousSplits ==
    [][LET h == ld'.hist
           n == Len(h)
           done == IF n > Len(ld.hist) THEN SlotOf(h[n].sector_idx) ELSE 0
       IN /\ minfo_sectors'.sectorPrev = sec'.prev_s
          /\ \A j \in 1..3 : j # done => sec'.prev_s[j] = sec.prev_s[j]
          /\ OneLap(h) =>
                minfo_sectors'.sectorPrev =
                    <<h[n - 2].curr_sector1,
                      h[n - 1].curr_sector2 - h[n - 2].curr_sector1,
                      h[n].laptime_valid - h[n].last_sector2>>
          /\ (/\ OneLap(h)
              /\ h[n - 2].curr_sector1 = 302
              /\ h[n - 1].curr_sector2 = 610
              /\ h[n].laptime_valid = 925) =>
                minfo_sectors'.sectorPrev = <<302, 308, 315>>]_vars

\* the lap of the example, followed by sector 1 of the next lap: slots 2 and
\* 3 still hold the splits of the example
C21_Witness ==
    /\ Len(ld.hist) = 4
    /\ OneLap(SubSeq(ld.hist, 1, 3))
    /\ ld.hist[1].curr_sector1 = 302
    /\ ld.hist[2].curr_sector2 = 610
    /\ ld.hist[3].laptime_valid = 925
    /\ ld.hist[4].sector_idx = 1
    /\ ld.hist[4].curr_sector1 = 610
    /\ minfo_sectors.sectorPrev = <<610, 308, 315>>

\* ================================================ idle ticks and intervals
\* C22: on a tick with no session active neither estimator modifies a
\* published field: the fuel and sectors fields keep the values of the last
\* active tick across the Active-to-Idle transition and every later idle
\* tick.
C22_IdleHoldsPublished ==
    [][/\ ~fuel'.reset => fuel_io'.minfo = fuel_io.minfo
       /\ ~sec'.reset => minfo_sectors' = minfo_sectors]_vars

\* the fuel worker has gone idle after a session that published a lap's
\* consumption, and the values are still there
C22_Witness ==
    /\ pc["fuel"][1] = "loop"
    /\ ~fuel.reset
    /\ fuel.update_interval = "idle"
    /\ fuel_io.ticked
    /\ fuel_io.minfo.published
    /\ fuel_io.minfo.lastLapFuelConsumption > 0
    /\ fuel_io.minfo.amountFuelStart > 0

\* the same for the sectors worker
C22_WitnessSectors ==
    /\ pc["sectors"][1] = "loop"
    /\ ~sec.reset
    /\ sec.update_interval = "idle"
    /\ minfo_sectors.published
    /\ minfo_sectors.sectorIndex = 2
    /\ minfo_sectors.sectorPrev[1] # MAGIC_NUM

\* C23: after every tick of a worker loop the wait before the next wake is
\* the active interval if a session was live on that tick and the idle
\* interval otherwise, idle ticks before any session included.
C23_IntervalFollowsSession ==
    (pc["fuel"][1] = "loop" /\ fuel_io.ticked) =>
        fuel.update_interval = IF fuel.reset THEN "active" ELSE "idle"

\* C25: at a lap boundary of the fuel estimator, if the curve of the lap has
\* more than the seed point and the pits were seen on no tick of the
\* completing lap, the curve is closed with (last position + 10, used this
\* lap, lap duration) and staged for validation; otherwise nothing is
\* staged.  Either way used_curr is 0, the curve is the seed point and the
\* pit-lap flag is false afterwards.
C25_LapBoundary ==
    [][(fuel.reset /\ fuel'.reset /\ fuel_io'.laps = fuel_io.laps + 1) =>
          LET burnt == IF fuel.amount_last > fuel'.amount_last
                       THEN fuel.amount_last - fuel'.amount_last ELSE 0
              closed == Append(fuel.delta_list_curr,
                               <<fuel.pos_last + 10, fuel.used_curr + burnt,
                                 fuel'.last_lap_stime - fuel.last_lap_stime>>)
              stage == /\ Len(fuel.delta_list_curr) > 1
                       /\ ~(fuel.pit_lap \/ fuel_io'.in_pits)
          IN /\ fuel'.used_curr = 0
             /\ fuel'.delta_list_curr = <<DELTA_ZERO>>
             /\ ~fuel'.pit_lap
             /\ stage =>
                   \* pending, or taken by the validation of the same tick
                   \/ fuel'.delta_list_temp = closed
                   \/ fuel_io'.confirmed_now /\ fuel'.delta_list_last = closed
             /\ ~stage =>
                   /\ fuel'.validating => fuel.validating
                   /\ fuel'.delta_list_temp
                          \in {fuel.delta_list_temp, <<DELTA_ZERO>>}
                   /\ fuel'.delta_list_last
                          \in {fuel.delta_list_last, fuel.delta_list_temp}]_vars

\* a lap that burnt fuel and saw no pits has ended: its curve is pending
C25_Witness ==
    /\ fuel.reset
    /\ fuel.validating
    /\ fuel_io.pending_laps = 0
    /\ ~fuel_io.in_pits
    /\ Len(fuel.delta_list_temp) = 3
    /\ fuel.delta_list_temp[3][2] = fuel.used_last_raw
    /\ fuel.used_last_raw > 0
    /\ fuel.used_curr = 0
    /\ fuel.delta_list_curr = <<DELTA_ZERO>>

\* a lap with samples on which the pits were seen has ended: nothing pending
C25_WitnessPit ==
    /\ fuel.reset
    /\ fuel_io.laps = 1
    /\ fuel_io.in_pits
    /\ ~fuel.pit_lap
    /\ ~fuel.validating
    /\ fuel.used_last_raw > 0
    /\ fuel.delta_list_curr = <<DELTA_ZERO>>

\* ============================================ sectors: updates and bests
\* C34: a sector update is applied at most once per change of the reported
\* sector index: while the reported index equals the last accepted one, and
\* while a changed index does not meet its acceptance condition, the
\* previous-lap array, both best arrays, both delta arrays and the best
\* laptime are unchanged.
C34_OncePerIndexChange ==
    [][(sec.reset /\ sec'.reset) =>
          /\ lapinfo'.env_sector = sec.last_sector_idx =>
                sec'.last_sector_idx = sec.last_sector_idx
          /\ sec'.last_sector_idx = sec.last_sector_idx =>
                /\ sec'.prev_s = sec.prev_s
                /\ sec'.best_s_tb = sec.best_s_tb
                /\ sec'.best_s_pb = sec.best_s_pb
                /\ sec'.delta_s_tb = sec.delta_s_tb
                /\ sec'.delta_s_pb = sec.delta_s_pb
                /\ sec'.laptime_best = sec.laptime_best]_vars

\* sector index 2 is reported after sector 1 was accepted, its split is not
\* available yet, and nothing of sector 2 has been recorded
C34_Witness ==
    /\ sec.reset
    /\ lapinfo.env_sector = 2
    /\ sec.last_sector_idx = 1
    /\ sec.prev_s[1] # MAGIC_NUM
    /\ sec.prev_s[2] = MAGIC_NUM

\* C36: within a session the best laptime never increases, and on any tick
\* either the personal-best sectors and the best laptime are both unchanged
\* or the best laptime strictly decreases to a positive laptime and the
\* personal-best array is replaced by the previous-lap array, which happens
\* only on an accepted transition to sector index 0 with all three
\* previous-lap slots valid.
C36_PersonalBestWithLaptime ==
    [][(sec.reset /\ sec'.reset) =>
          LET s == sec
          IN /\ sec'.laptime_best <= s.laptime_best
             /\ \/ /\ sec'.laptime_best = s.laptime_best
                   /\ sec'.best_s_pb = s.best_s_pb
                \/ /\ sec'.laptime_best < s.laptime_best
                   /\ sec'.laptime_best > 0
                   /\ sec'.best_s_pb = sec'.prev_s
                   /\ ValidTimes(sec'.prev_s)
                   /\ sec'.last_sector_idx = 0
                   /\ s.last_sector_idx # 0]_vars

\* a lap with three valid splits has replaced the unset personal best, and
\* its sector 1 was not the fastest driven
C36_Witness ==
    /\ sec.reset
    /\ sec.last_sector_idx = 0
    /\ sec.laptime_best < MAGIC_NUM
    /\ sec.best_s_tb[1] < sec.best_s_pb[1]
    /\ sec.best_s_pb = sec.prev_s
    /\ ValidTimes(sec.best_s_pb)

\* C37: from cold-start defaults and over any sessions with save and reload
\* in between, whenever personal-best sector i is valid the theoretical best
\* of that sector is not larger.
C37_TheoreticalNotAbovePersonal ==
    \A i \in 1..3 :
        ValidTime(sec.best_s_pb[i]) => sec.best_s_tb[i] <= sec.best_s_pb[i]

\* a reloaded personal best whose sector 1 is slower than the theoretical
\* best of that sector
C37_Witness ==
    /\ sec.reset
    /\ sessions["sectors"] = 2
    /\ ValidTimes(sec.best_s_pb)
    /\ sec.best_s_tb[1] < sec.best_s_pb[1]

\* ================================ save_sector_data then load_sector_data
\* The locals of a session at its end are saved by one call of
\* save_sector_data; load_sector_data is then called (LoadCall) with any
\* combination id and session identity.
\* the bests of a session: none yet, theoretical bests only, and a personal
\* best lap with theoretical bests at or below its splits
SavedBests ==
    {[laptime_best |-> MAGIC_NUM, best_s_tb |-> Unset3, best_s_pb |-> Unset3],
     [laptime_best |-> MAGIC_NUM, best_s_tb |-> <<1, 1, MAGIC_NUM>>,
      best_s_pb |-> Unset3],
     [laptime_best |-> 3, best_s_tb |-> <<1, 1, 1>>, best_s_pb |-> <<1, 1, 1>>],
     [laptime_best |-> 6, best_s_tb |-> <<1, 0, 1>>, best_s_pb |-> <<2, 1, 3>>],
     [laptime_best |-> 6, best_s_tb |-> <<1, 1, 2>>, best_s_pb |-> <<2, 1, 3>>]}

SectorSaveCall ==
    /\ sector_info = <<>>
    /\ ~ld.done
    /\ sector_info' = save_sector_data(sector_info, sec.combo_id,
           sec.session_id, sec.best_s_pb, sec.laptime_best, sec.best_s_tb)
    /\ sector_info' # <<>>
    /\ ld' = [ld EXCEPT !.info = sector_info']
    /\ UNCHANGED <<stopped, event, active_module_list, pc, ctl, sec, lapinfo,
                   minfo_sectors, fuelVars, sessions>>

InitRound ==
    /\ stopped = [e \in Estimators |-> TRUE]
    /\ event = [e \in Estimators |-> FALSE]
    /\ active_module_list = <<>>
    /\ pc = NoThreads
    /\ ctl = CtlIdle
    /\ \E c \in LoadCombos, s \in LoadSessionIds, b \in SavedBests :
         sec = [SecIdle EXCEPT !.combo_id = c, !.session_id = s,
                               !.laptime_best = b.laptime_best,
                               !.best_s_tb = b.best_s_tb,
                               !.best_s_pb = b.best_s_pb]
    /\ sector_info = <<>>
    /\ lapinfo = LapIdle(FALSE)
    /\ minfo_sectors = MinfoUnset
    /\ fuel = FuelIdleLocals
    /\ fuel_file = NoFile
    /\ fuel_io = IoIdle
    /\ sessions = [e \in Estimators |-> 0]
    /\ ld = LdIdle

NextRound == SectorSaveCall \/ LoadCall

SpecRound == InitRound /\ [][NextRound]_vars

\* C35: a record written by save_sector_data for combination id c and
\* session identity s, loaded with the same c and with s or a session
\* identity compatible with s (same type, elapsed time and laps not below
\* the stored ones), returns the same best laptime, the same three
\* theoretical-best values and the same three personal-best values in the
\* same order.
C35_SectorRoundTrip ==
    (/\ ld.done
     /\ sector_info # <<>>
     /\ ld.info = sector_info
     /\ ld.combo_id = sec.combo_id
     /\ SessionMatch(sec.session_id, ld.session_id)) =>
        /\ ld.out.raised = "none"
        /\ ld.out.accepted
        /\ ld.out.laptime_best = sec.laptime_best
        /\ ld.out.best_s_tb = sec.best_s_tb
        /\ ld.out.best_s_pb = sec.best_s_pb

\* a record with different theoretical and personal bests was written and
\* loaded by a later tick of the session it was saved in
C35_Witness ==
    /\ ld.done
    /\ sector_info # <<>>
    /\ ld.info = sector_info
    /\ ld.combo_id = sec.combo_id
    /\ sec.session_id = <<1, 0, 0>>
    /\ ld.session_id = <<1, 1, 1>>
    /\ ld.out.accepted
    /\ ld.out.best_s_tb = <<1, 0, 1>>
    /\ ld.out.best_s_pb = <<2, 1, 3>>

\* ===================================================== session start
\* The fuel worker idle after an earlier session, with the locals that
\* session left (b: it was recording a lap; d: it had confirmed a curve and
\* seen the pits; u: fuel used), and one more session.
LeftLocals ==
    LET lap == <<DELTA_ZERO, <<0, 1>>, <<EndGap, 1, 1>>>>
    IN {[FuelIdleLocals EXCEPT
            !.update_interval = "idle",
            !.recording = b, !.validating = b,
            !.delayed_save = d, !.pit_lap = d,
            !.delta_list_last = IF d THEN lap ELSE DefaultCurve,
            !.used_last = IF d THEN 1 ELSE 0,
            !.laptime_last = IF d THEN 1 ELSE 0,
            !.delta_list_curr = IF b THEN <<DELTA_ZERO, <<0, u>>>>
                                ELSE <<DELTA_ZERO>>,
            !.delta_list_temp = IF b THEN lap ELSE <<DELTA_ZERO>>,
            !.amount_start = MaxFuel, !.amount_last = MaxFuel - u,
            !.used_curr = u, !.used_last_raw = u,
            !.last_lap_stime = IF b THEN 1 ELSE 0] :
        b \in BOOLEAN, d \in BOOLEAN, u \in 0..1}

\* The sectors worker idle after an earlier session, with the locals that
\* session left and the bests its last idle tick wrote.
LeftSectors ==
    {[SecIdle EXCEPT
         !.update_interval = "idle", !.last_sector_idx = 0,
         !.combo_id = <<Txt("c1")>>, !.session_id = <<1, 0, 0>>,
         !.laptime_best = b.laptime_best,
         !.best_s_tb = b.best_s_tb, !.best_s_pb = b.best_s_pb,
         !.delta_s_tb = <<1, 0, 0>>, !.delta_s_pb = <<1, 0, 0>>,
         !.prev_s = <<2, 1, 3>>, !.no_delta_s = FALSE] : b \in SavedBests}

\* one worker is running and idle, the other estimator is stopped
InitRearm ==
    /\ \E e \in Estimators :
         /\ stopped = [x \in Estimators |-> x # e]
         /\ active_module_list = <<e>>
         /\ pc = [NoThreads EXCEPT ![e][1] = "loop"]
         /\ sessions = [x \in Estimators |->
                           IF x = "sectors" THEN MaxSessions - 1 ELSE 0]
         /\ IF e = "fuel"
            THEN /\ sec = SecIdle
                 /\ sector_info = <<>>
                 /\ minfo_sectors = MinfoUnset
                 /\ fuel \in LeftLocals
                 /\ fuel_file \in StoredFiles
                 /\ fuel_io = [IoIdle EXCEPT
                        !.ticked = TRUE,
                        !.minfo = [published |-> TRUE,
                                   amountFuelStart |-> fuel.amount_start,
                                   amountFuelCurrent |-> fuel.amount_last,
                                   lastLapFuelConsumption |-> fuel.used_last_raw]]
            ELSE /\ sec \in LeftSectors
                 /\ sector_info = save_sector_data(<<>>, sec.combo_id,
                        sec.session_id, sec.best_s_pb, sec.laptime_best,
                        sec.best_s_tb)
                 /\ minfo_sectors = Publish(sec)
                 /\ fuel = FuelIdleLocals
                 /\ fuel_file = NoFile
                 /\ fuel_io = IoIdle
    /\ event = [e \in Estimators |-> FALSE]
    /\ ctl = CtlIdle
    /\ lapinfo = LapIdle(FALSE)
    /\ ld = LdIdle

NextRearm == FuelActive \/ FuelIdle \/ SectorsActive \/ SectorsIdle

SpecRearm == InitRearm /\ [][NextRearm]_vars

\* the running state of the fuel estimator at session start, given what
\* load_deltafuel returned
FreshFuel(loaded) ==
    [reset |-> TRUE, delayed_save |-> FALSE, update_interval |-> "active",
     recording |-> FALSE, validating |-> FALSE, pit_lap |-> FALSE,
     delta_list_last |-> loaded.lastlist, used_last |-> loaded.used_last,
     laptime_last |-> loaded.laptime_last,
     delta_list_curr |-> <<<<0, 0>>>>, delta_list_temp |-> <<<<0, 0>>>>,
     amount_start |-> 0, amount_last |-> 0, used_curr |-> 0,
     used_last_raw |-> loaded.used_last, last_lap_stime |-> -1,
     pos_last |-> 0]

\* the running state of the sector estimator at session start
FreshSectors(combo_id, session_id, loaded) ==
    [reset |-> TRUE, update_interval |-> "active", last_sector_idx |-> -1,
     combo_id |-> combo_id, session_id |-> session_id,
     laptime_best |-> loaded.laptime_best,
     best_s_tb |-> loaded.best_s_tb, best_s_pb |-> loaded.best_s_pb,
     delta_s_tb |-> <<0, 0, 0>>, delta_s_pb |-> <<0, 0, 0>>,
     prev_s |-> <<99999, 99999, 99999>>, no_delta_s |-> TRUE]

\* C33: on every Idle-to-Active transition each estimator rebuilds its
\* running state before the first tick is processed: the result of the first
\* tick is the result of that tick on the fresh state (fuel: used_curr 0,
\* both curves the seed point, recording, validating and delayed save false,
\* lap-start sentinel -1, reference curve freshly loaded; sectors: last index
\* -1, both delta arrays zero, previous-lap array 99999, no-delta true,
\* bests freshly loaded), so nothing of the previous session survives but
\* what was persisted.
C33_RearmOnSessionStart ==
    [][/\ (~fuel.reset /\ fuel'.reset) =>
             LET loaded == load_deltafuel(fuel_file)
                 fresh == FreshFuel([lastlist |-> loaded.lastlist,
                                     used_last |-> loaded.used_last,
                                     laptime_last |-> loaded.laptime_last])
             IN \E in \in FuelInputsFor(fuel_io.env) :
                   fuel' = Validate(FuelTrack(fresh, in), in)
       /\ (~sec.reset /\ sec'.reset /\ pc'["sectors"][1] = "loop") =>
             LET loaded == load_sector_data(sector_info, sec'.combo_id,
                                            sec'.session_id)
                 fresh == FreshSectors(sec'.combo_id, sec'.session_id,
                              [laptime_best |-> loaded.laptime_best,
                               best_s_tb |-> loaded.best_s_tb,
                               best_s_pb |-> loaded.best_s_pb])
             IN \E in \in SectorInputs : sec' = SectorsUpdate(fresh, in)]_vars

\* a session has started on a worker whose previous session was recording,
\* had a pending curve, a queued save and fuel used: none of it is left
C33_Witness ==
    /\ fuel.reset
    /\ fuel_io.laps = 0
    /\ fuel_io.minfo.amountFuelStart = 0
    /\ fuel.used_curr = 0
    /\ ~fuel.delayed_save
    /\ ~fuel.validating
    /\ fuel.delta_list_temp = <<DELTA_ZERO>>
    /\ fuel.delta_list_last = DefaultCurve
    /\ fuel_file = NoFile

\* a session has started on a sectors worker whose previous session left a
\* sector index, deltas and a previous lap: only the stored bests are back
C33_WitnessSectors ==
    /\ sec.reset
    /\ sessions["sectors"] = MaxSessions
    /\ sec.last_sector_idx = -1
    /\ sec.best_s_pb = <<2, 1, 3>>
    /\ sec.best_s_tb = <<1, 0, 1>>
    /\ sec.prev_s = Unset3
    /\ sec.delta_s_tb = <<0, 0, 0>>
    /\ sec.no_delta_s

\* ================================================ projections: laps, pits
\* full laps left of a time-type session, counted from the start line of the
\* current lap
FullLapsLeft(in) ==
    Ceil(RDiv(RAdd(in.time_left,
                   RMul(Modf0(RDiv(in.laptime_curr, in.laptime_last)),
                        in.laptime_last)),
              in.laptime_last))

\* C31: in a time-limited session with a positive last laptime, laps_left is
\* updated only on ticks whose current lap time exceeds 0.2 s and keeps its
\* previous value otherwise; when updated it is max(full_laps_left -
\* lap_into, 0), so it is never negative.
C31_LapsLeftDelayed ==
    [][(ld.op = "none" /\ ld'.op = "tick" /\ ~ld.in.lap_type
          /\ RLt(R(0), ld.in.laptime_last)) =>
          /\ ld'.out.laps_left =
                IF RLt(<<1, 5>>, ld.in.laptime_curr)
                THEN RMax(RSub(FullLapsLeft(ld.in), ld.in.lap_into), R(0))
                ELSE ld.out.laps_left
          /\ ~RLt(ld'.out.laps_left, R(0))]_vars

\* a tick exactly 0.2 s into the lap has kept the laps left of the tick
\* before, which the update would have changed
C31_Witness ==
    /\ ld.op = "tick"
    /\ ~ld.in.lap_type
    /\ RLt(R(0), ld.in.laptime_last)
    /\ ld.in.laptime_curr = <<1, 5>>
    /\ ld.in.time_left = R(600)
    /\ ld.out.laps_left = <<33, 5>>

\* C32: for all inputs of end_lap_pit_counts the current-stint component of
\* the end-of-lap pit-stop count is at most 1, and exactly 1 when the fuel
\* needed exceeds the estimated empty capacity or the empty capacity is 0;
\* the result is that component plus (fuel needed minus the amount added in
\* the current stint) divided by the remaining capacity.
C32_EndLapPitCounts ==
    (ld.op = "tick" /\ ~Raised(ld.out.est_pits_early)) =>
        LET need == ld.out.amount_need
            empty == ld.out.est_empty
            remaining == RSub(RMax(ld.in.tank_capacity, R(1)),
                              ld.out.amount_left)
            added == RMin(need, empty)
            component == RSub(ld.out.est_pits_early,
                              RDiv(RSub(need, added), remaining))
        IN /\ ~RLt(R(1), component)
           /\ (RLt(empty, need) \/ empty = R(0)) => component = R(1)

\* ================================================ fuel: reference curve
\* C38: whenever the reference curve is a closed recorded curve (loaded from
\* a well-formed file or adopted on confirmation), used_last is the fuel
\* used of that curve's closing point: a confirmation never pairs a pending
\* curve with the raw usage of another lap.
C38_UsedLastOfReferenceCurve ==
    (fuel.reset /\ Len(fuel.delta_list_last) > 1) =>
        fuel.used_last = fuel.delta_list_last[Len(fuel.delta_list_last)][2]

\* ===================================================== lifecycle: exit
\* a worker thread of e exists (started and not yet ended)
Alive(e) == \E w \in Threads : pc[e][w] \notin {"none", "dead"}

\* the worker of e is in its loop: started, appended, not yet at the remove
InLoop(e) ==
    /\ \E w \in Threads : pc[e][w] \in {"loop", "body", "remove"}
    /\ ~(ctl.at = "append" /\ ctl.e = e)

Started(e) ==
    ctl.at = "idle" /\ ctl.e = e /\ ctl.last \in {"noop", "started"}

\* C40: a start() call issued after a stop() call on the same estimator is
\* not lost: for every interleaving, including start() called before the
\* stopping worker has exited, the estimator eventually has a live worker
\* loop with stopped = false (at the latest if the application makes no
\* other call after the start()).
C40_StartAfterStopNotLost ==
    \A e \in Estimators :
        Started(e) ~>
            \/ /\ \E w \in Threads : pc[e][w] \in {"loop", "body"}
               /\ ~stopped[e]
               /\ ~event[e]
            \/ ~Started(e)

====
